---- MODULE Spec2Model ----
(***************************************************************************)
(* Frame loop of the Vulkan sprite renderer: main()'s event/draw loop,     *)
(* draw_frame(), vkx_recreate_swap_chain() and the GPU that completes the  *)
(* submitted work.  The CPU thread is a program counter (pc) walking the   *)
(* driver calls of the source in order; the GPU is a second process that   *)
(* finishes pending submissions and signals their fences.                  *)
(***************************************************************************)
EXTENDS Integers, Naturals, FiniteSets, Sequences, TLC

\* src/include/vkx/vkx_core.h:9
VKX_FRAMES_IN_FLIGHT == 2

\* src/src/main.c:211
SUBOPTIMAL_SWAPCHAIN_THRESHOLD == 10

\* Cap on suboptimal_swapchain_count (a uint32_t in the source): the counter
\* only grows past the threshold while a resize is pending in every frame.
MaxSuboptimalCount == 12

Slots == 0 .. (VKX_FRAMES_IN_FLIGHT - 1)

VK_SUCCESS == "VK_SUCCESS"
VK_SUBOPTIMAL_KHR == "VK_SUBOPTIMAL_KHR"
VK_ERROR_OUT_OF_DATE_KHR == "VK_ERROR_OUT_OF_DATE_KHR"
VK_ERROR_DEVICE_LOST == "VK_ERROR_DEVICE_LOST"

\* The results vkAcquireNextImageKHR / vkQueuePresentKHR can hand back; one
\* hard error stands for every result the code does not name.
VkResults == {VK_SUCCESS, VK_SUBOPTIMAL_KHR, VK_ERROR_OUT_OF_DATE_KHR, VK_ERROR_DEVICE_LOST}

\* Window events main() distinguishes.
Events == {"F11", "QUIT", "OTHER"}

----------------------------------------------------------------------------
\* vkx_swap_chain.c: what vkx_create_swap_chain() chooses from the surface

\* The width the surface reports when the application picks the extent:
\* 0xFFFFFFFF in the source, here the largest integer the model checker holds.
\* No extent of the model reaches it, as no real extent reaches 0xFFFFFFFF.
SENTINEL_WIDTH == 2147483647

\* Most images the driver may hand back beyond create_info.minImageCount.
MaxExtraImages == 1

Extent(w, h) == [width |-> w, height |-> h]

SurfaceFormat(f, c) == [format |-> f, colorSpace |-> c]

\* What vkx_query_swap_chain_support() and SDL_GetWindowSize() report to one
\* vkx_create_swap_chain() call: a surface with a fixed extent that lists the
\* preferred format second, a surface that leaves the extent to the window and
\* lists neither the preferred format nor mailbox presentation, and a surface
\* without formats.
FrameSurfaces ==
    { [currentExtent |-> Extent(8, 6), minImageExtent |-> Extent(1, 1),
       maxImageExtent |-> Extent(16, 16), minImageCount |-> 2, maxImageCount |-> 0,
       formats |-> <<SurfaceFormat("R8G8B8A8_UNORM", "SRGB_NONLINEAR"),
                     SurfaceFormat("B8G8R8A8_SRGB", "SRGB_NONLINEAR")>>,
       present_modes |-> <<"FIFO", "MAILBOX">>, window |-> Extent(8, 6)],
      [currentExtent |-> Extent(SENTINEL_WIDTH, SENTINEL_WIDTH), minImageExtent |-> Extent(4, 4),
       maxImageExtent |-> Extent(10, 10), minImageCount |-> 2, maxImageCount |-> 2,
       formats |-> <<SurfaceFormat("R8G8B8A8_UNORM", "SRGB_NONLINEAR")>>,
       present_modes |-> <<"FIFO">>, window |-> Extent(12, 3)],
      [currentExtent |-> Extent(8, 6), minImageExtent |-> Extent(1, 1),
       maxImageExtent |-> Extent(16, 16), minImageCount |-> 2, maxImageCount |-> 0,
       formats |-> << >>, present_modes |-> <<"FIFO">>, window |-> Extent(8, 6)] }

\* The surfaces vkx_create_swap_chain() does not exit on.
UsableSurfaces == {s \in FrameSurfaces : s.formats # << >> /\ s.present_modes # << >>}

\* vkx_choose_swap_extent(): the surface's extent unless its width is the
\* sentinel, else the window size clamped per component.
ClampExtent(v, lo, hi) == IF v < lo THEN lo ELSE IF v > hi THEN hi ELSE v

\* Faulty variant: the window size is used as it is.
ChooseSwapExtent_NoClamp(window, capabilities) ==
    IF capabilities.currentExtent.width # SENTINEL_WIDTH
    THEN capabilities.currentExtent
    ELSE Extent(window.width, window.height)

ChooseSwapExtent(window, capabilities) ==
    IF capabilities.currentExtent.width # SENTINEL_WIDTH
    THEN capabilities.currentExtent
    ELSE Extent(ClampExtent(window.width, capabilities.minImageExtent.width,
                            capabilities.maxImageExtent.width),
                ClampExtent(window.height, capabilities.minImageExtent.height,
                            capabilities.maxImageExtent.height))

\* Faulty variant: the color space of an entry is not compared.
ChooseSurfaceFormat_AnyColorSpace(formats) ==
    LET preferred == {i \in 1 .. Len(formats) : formats[i].format = "B8G8R8A8_SRGB"}
    IN  IF preferred = {}
        THEN formats[1]
        ELSE formats[CHOOSE i \in preferred : \A j \in preferred : i <= j]

\* The first B8G8R8A8_SRGB / SRGB_NONLINEAR entry, else formats[0].
ChooseSurfaceFormat(formats) ==
    LET preferred == {i \in 1 .. Len(formats) :
                        /\ formats[i].format = "B8G8R8A8_SRGB"
                        /\ formats[i].colorSpace = "SRGB_NONLINEAR"}
    IN  IF preferred = {}
        THEN formats[1]
        ELSE formats[CHOOSE i \in preferred : \A j \in preferred : i <= j]

\* Faulty variant: without mailbox the first listed mode is taken.
ChoosePresentMode_FirstListed(present_modes) ==
    IF \E i \in 1 .. Len(present_modes) : present_modes[i] = "MAILBOX"
    THEN "MAILBOX"
    ELSE present_modes[1]

\* Mailbox when the surface lists it, else FIFO.
ChoosePresentMode(present_modes) ==
    IF \E i \in 1 .. Len(present_modes) : present_modes[i] = "MAILBOX"
    THEN "MAILBOX"
    ELSE "FIFO"

\* Faulty variant: a maxImageCount of 0 is taken as a limit too.
ChooseImageCount_ZeroIsLimit(capabilities) ==
    IF capabilities.minImageCount + 1 > capabilities.maxImageCount
    THEN capabilities.maxImageCount
    ELSE capabilities.minImageCount + 1

\* minImageCount + 1, capped by a non-zero maxImageCount.
ChooseImageCount(capabilities) ==
    IF capabilities.maxImageCount > 0
       /\ capabilities.minImageCount + 1 > capabilities.maxImageCount
    THEN capabilities.maxImageCount
    ELSE capabilities.minImageCount + 1

\* The VkSwapchainCreateInfoKHR vkx_create_swap_chain() fills in.
SwapchainCreateInfo(support) ==
    [minImageCount |-> ChooseImageCount(support),
     imageFormat |-> ChooseSurfaceFormat(support.formats).format,
     imageColorSpace |-> ChooseSurfaceFormat(support.formats).colorSpace,
     imageExtent |-> ChooseSwapExtent(support.window, support),
     presentMode |-> ChoosePresentMode(support.present_modes)]

\* VK_NULL_HANDLE and the NULL pointer.  A live handle is a record that says
\* what it refers to; an array is a record holding its elements.
NULL == [null |-> TRUE]

Handle(kind) == [kind |-> kind]

Array(elems) == [elems |-> elems]

\* A VkxImage with every handle null: VkxImage image = {0}.
NullImage == [image |-> NULL, memory |-> NULL, view |-> NULL]

\* vkx_create_image(): the process exits when vkCreateImage fails; a failed
\* vkAllocateMemory is reported and the image is bound and returned all the same,
\* its memory handle still null.  The view is VK_NULL_HANDLE.
CreateImage(image, memory, memory_ok) ==
    [image |-> image,
     memory |-> IF memory_ok THEN memory ELSE NULL,
     view |-> NULL]

\* The depth image vkx_create_swap_chain() asks vkx_create_image() for.
DepthImage(extent, memory_ok) ==
    CreateImage([extent |-> extent], Handle("memory"), memory_ok)

\* vkx_cleanup_image(): the view is destroyed if it is non-null, the image is
\* destroyed and its memory freed, the three handles are set to null.
CleanupImage(image) == NullImage

\* The images of one swapchain, and the view vkx_create_image_view() makes of each.
SwapChainImages(n) == Array([i \in 1 .. n |-> i])

ImageViews(images) == Array([i \in 1 .. Len(images.elems) |-> [image |-> images.elems[i]]])

\* The images vkGetSwapchainImagesKHR hands back: each in undefined layout.
RetrievedImages(n) == [i \in 1 .. n |-> [layout |-> "UNDEFINED", transitions |-> 0]]

\* Faulty variant: the loop over the images starts at the second image.
TransitionBarriers_SkipFirst(images_count) == 2 .. images_count

\* The images vkx_create_swap_chain() records a barrier for: the loop over
\* i < images_count, here counted from 1.
TransitionBarriers(images_count) == 1 .. images_count

\* The queue executes the barriers: oldLayout UNDEFINED, newLayout PRESENT_SRC_KHR.
ApplyBarriers(state, barriers) ==
    [i \in 1 .. Len(state) |->
        IF i \in barriers
        THEN [layout |-> "PRESENT_SRC_KHR", transitions |-> state[i].transitions + 1]
        ELSE state[i]]

\* A semaphore of vkx_sync_objects: which array it is in and at which index.
Semaphore(kind, slot) == [kind |-> kind, slot |-> slot]

\* draw_frame() has filled in no VkSubmitInfo / VkPresentInfoKHR yet.
NoInfo == [filled |-> FALSE]

\* The VkSubmitInfo draw_frame() fills in for slot frame, and the fence it
\* hands to vkQueueSubmit with it.
SubmitInfo(frame) ==
    [pWaitSemaphores |-> <<Semaphore("image_available", frame)>>,
     pWaitDstStageMask |-> <<"COLOR_ATTACHMENT_OUTPUT">>,
     pCommandBuffers |-> <<frame>>,
     pSignalSemaphores |-> <<Semaphore("render_finished", frame)>>,
     fence |-> frame]

\* Faulty variant: the present waits on the semaphores the submission waits on.
PresentInfo_WaitsOnAcquire(submit) == [pWaitSemaphores |-> submit.pWaitSemaphores]

\* The VkPresentInfoKHR draw_frame() fills in: pWaitSemaphores is the
\* signal_semaphores array of the submission.
PresentInfo(submit) == [pWaitSemaphores |-> submit.pSignalSemaphores]

\* vkx_has_stencil_component(): the depth formats that carry a stencil aspect.
HasStencilComponent(format) == format \in {"D32_SFLOAT_S8_UINT", "D24_UNORM_S8_UINT"}

\* subresourceRange.aspectMask of the barrier vkx_transition_image_layout() fills in.
AspectMask(format, new_layout) ==
    IF new_layout = "DEPTH_STENCIL_ATTACHMENT_OPTIMAL"
    THEN {"DEPTH"} \cup (IF HasStencilComponent(format) THEN {"STENCIL"} ELSE {})
    ELSE {"COLOR"}

\* The stage masks of a branch of vkx_transition_image_layout().
Stages(src, dst) == [srcStageMask |-> src, dstStageMask |-> dst]

\* No branch of vkx_transition_image_layout() takes the pair.
Unsupported == [supported |-> FALSE]

\* Faulty variant: the branch for a freshly created offscreen image is missing.
TransitionStages_NoOffscreenSetup(old_layout, new_layout) ==
    IF old_layout = "UNDEFINED" /\ new_layout = "TRANSFER_DST_OPTIMAL"
    THEN Stages("TOP_OF_PIPE", "TRANSFER")
    ELSE IF old_layout = "UNDEFINED" /\ new_layout = "DEPTH_STENCIL_ATTACHMENT_OPTIMAL"
    THEN Stages("TOP_OF_PIPE", "EARLY_FRAGMENT_TESTS")
    ELSE IF old_layout = "TRANSFER_DST_OPTIMAL" /\ new_layout = "SHADER_READ_ONLY_OPTIMAL"
    THEN Stages("TRANSFER", "FRAGMENT_SHADER")
    ELSE IF old_layout = "PRESENT_SRC_KHR" /\ new_layout = "COLOR_ATTACHMENT_OPTIMAL"
    THEN Stages("TOP_OF_PIPE", "COLOR_ATTACHMENT_OUTPUT")
    ELSE IF old_layout = "COLOR_ATTACHMENT_OPTIMAL" /\ new_layout = "PRESENT_SRC_KHR"
    THEN Stages("COLOR_ATTACHMENT_OUTPUT", "BOTTOM_OF_PIPE")
    ELSE IF old_layout = "COLOR_ATTACHMENT_OPTIMAL" /\ new_layout = "SHADER_READ_ONLY_OPTIMAL"
    THEN Stages("TOP_OF_PIPE", "COLOR_ATTACHMENT_OUTPUT")
    ELSE IF old_layout = "SHADER_READ_ONLY_OPTIMAL" /\ new_layout = "COLOR_ATTACHMENT_OPTIMAL"
    THEN Stages("FRAGMENT_SHADER", "COLOR_ATTACHMENT_OUTPUT")
    ELSE Unsupported

\* The if / else-if chain of vkx_transition_image_layout() over (old_layout,
\* new_layout): the stage masks of the branch taken, or the final else.
TransitionStages(old_layout, new_layout) ==
    IF old_layout = "UNDEFINED" /\ new_layout = "TRANSFER_DST_OPTIMAL"
    THEN Stages("TOP_OF_PIPE", "TRANSFER")
    ELSE IF old_layout = "UNDEFINED" /\ new_layout = "SHADER_READ_ONLY_OPTIMAL"
    THEN Stages("TOP_OF_PIPE", "TRANSFER")
    ELSE IF old_layout = "UNDEFINED" /\ new_layout = "DEPTH_STENCIL_ATTACHMENT_OPTIMAL"
    THEN Stages("TOP_OF_PIPE", "EARLY_FRAGMENT_TESTS")
    ELSE IF old_layout = "TRANSFER_DST_OPTIMAL" /\ new_layout = "SHADER_READ_ONLY_OPTIMAL"
    THEN Stages("TRANSFER", "FRAGMENT_SHADER")
    ELSE IF old_layout = "PRESENT_SRC_KHR" /\ new_layout = "COLOR_ATTACHMENT_OPTIMAL"
    THEN Stages("TOP_OF_PIPE", "COLOR_ATTACHMENT_OUTPUT")
    ELSE IF old_layout = "COLOR_ATTACHMENT_OPTIMAL" /\ new_layout = "PRESENT_SRC_KHR"
    THEN Stages("COLOR_ATTACHMENT_OUTPUT", "BOTTOM_OF_PIPE")
    ELSE IF old_layout = "COLOR_ATTACHMENT_OPTIMAL" /\ new_layout = "SHADER_READ_ONLY_OPTIMAL"
    THEN Stages("TOP_OF_PIPE", "COLOR_ATTACHMENT_OUTPUT")
    ELSE IF old_layout = "SHADER_READ_ONLY_OPTIMAL" /\ new_layout = "COLOR_ATTACHMENT_OPTIMAL"
    THEN Stages("FRAGMENT_SHADER", "COLOR_ATTACHMENT_OUTPUT")
    ELSE Unsupported

\* vkx_transition_image_layout(command_buffer, image, format, old_layout,
\* new_layout): the barrier handed to vkCmdPipelineBarrier2, or exit(1) before
\* anything is recorded.
TransitionImageLayout(img, format, old_layout, new_layout) ==
    LET stages == TransitionStages(old_layout, new_layout)
    IN  IF stages = Unsupported
        THEN [exited |-> TRUE, recorded |-> << >>]
        ELSE [exited |-> FALSE,
              recorded |-> <<[image |-> img,
                              oldLayout |-> old_layout,
                              newLayout |-> new_layout,
                              aspectMask |-> AspectMask(format, new_layout),
                              srcStageMask |-> stages.srcStageMask,
                              dstStageMask |-> stages.dstStageMask]>>]

\* An image the program transitions: which array it is in and at which index.
ImageRef(kind, index) == [kind |-> kind, index |-> index]

\* One vkx_transition_image_layout call as the program writes it.
Transition(img, format, old_layout, new_layout) ==
    [image |-> img, format |-> format, old_layout |-> old_layout, new_layout |-> new_layout]

\* The transitions record_command_buffer() requests, in order: swapchain image
\* and offscreen image to color attachment, offscreen image to shader read
\* after the first pass, swapchain image to present source after the second.
FrameTransitions(image_index, frame, format) ==
    <<Transition(ImageRef("swap_chain", image_index), format,
                 "PRESENT_SRC_KHR", "COLOR_ATTACHMENT_OPTIMAL"),
      Transition(ImageRef("offscreen", frame), format,
                 "SHADER_READ_ONLY_OPTIMAL", "COLOR_ATTACHMENT_OPTIMAL"),
      Transition(ImageRef("offscreen", frame), format,
                 "COLOR_ATTACHMENT_OPTIMAL", "SHADER_READ_ONLY_OPTIMAL"),
      Transition(ImageRef("swap_chain", image_index), format,
                 "COLOR_ATTACHMENT_OPTIMAL", "PRESENT_SRC_KHR")>>

\* A per-slot resource and the index draw_frame() used it at.
Use(resource, slot) == [resource |-> resource, slot |-> slot]

\* Faulty variant: the first pass always renders into offscreen_images[0].
RecordedResources_FirstOffscreen(frame) ==
    {Use("command_buffers", frame), Use("offscreen_images", 0),
     Use("depth_images", frame), Use("descriptor_sets", frame),
     Use("screen_descriptor_sets", frame)}

\* The per-slot resources record_command_buffer(command_buffers[frame], ...)
\* reads at index current_frame, which is frame.
RecordedResources(frame) ==
    {Use("command_buffers", frame), Use("offscreen_images", frame),
     Use("depth_images", frame), Use("descriptor_sets", frame),
     Use("screen_descriptor_sets", frame)}

\* The per-slot resources a filled-in VkSubmitInfo and its fence name.
SubmittedResources(submit) ==
    {Use(submit.pWaitSemaphores[1].kind \o "_semaphores", submit.pWaitSemaphores[1].slot),
     Use(submit.pSignalSemaphores[1].kind \o "_semaphores", submit.pSignalSemaphores[1].slot),
     Use("command_buffers", submit.pCommandBuffers[1]),
     Use("in_flight_fences", submit.fence)}

\* The per-slot resources a filled-in VkPresentInfoKHR names.
PresentedResources(present) ==
    {Use(present.pWaitSemaphores[1].kind \o "_semaphores", present.pWaitSemaphores[1].slot)}

\* The barriers a recording hands to vkCmdPipelineBarrier2, each with the layout
\* its image is in when the barrier executes; layouts maps an image to its layout.
RECURSIVE RecordTransitions(_, _, _)
RecordTransitions(transitions, layouts, log) ==
    IF transitions = << >>
    THEN [exited |-> FALSE, layouts |-> layouts, log |-> log]
    ELSE LET t == Head(transitions)
             r == TransitionImageLayout(t.image, t.format, t.old_layout, t.new_layout)
         IN  IF r.exited
             THEN [exited |-> TRUE, layouts |-> layouts, log |-> log]
             ELSE RecordTransitions(
                      Tail(transitions),
                      [layouts EXCEPT ![t.image] = t.new_layout],
                      Append(log, [array |-> t.image.kind,
                                   oldLayout |-> r.recorded[1].oldLayout,
                                   newLayout |-> r.recorded[1].newLayout,
                                   layout |-> layouts[t.image]]))

VARIABLES
    pc,                         \* position of the CPU thread
    running,                    \* main(): bool running
    current_frame,              \* main.c: uint32_t current_frame
    framebuffer_resized,        \* main.c: bool framebuffer_resized
    suboptimal_swapchain_count, \* main.c: uint32_t suboptimal_swapchain_count
    acquire_result,             \* draw_frame: result of the last vkAcquireNextImageKHR
    present_result,             \* draw_frame: result of vkQueuePresentKHR
    in_flight_fences,           \* slot -> TRUE when the fence is signaled
    gpu_pending,                \* slot -> TRUE while the slot's submission executes
    transition_pending,         \* the fence-less layout-transition submission executes
    command_buffers,            \* slot -> what the command buffer holds
    swap_chain_alive,           \* vkx_swap_chain.swap_chain is a live handle
    rc_site,                    \* call site of the running vkx_recreate_swap_chain
    entry_frame,                \* current_frame when draw_frame was entered
    entry_count,                \* suboptimal_swapchain_count when draw_frame was entered
    calls,                      \* driver calls made by the running draw_frame call
    events,                     \* recreation triggers seen by the running draw_frame call
    run,                        \* consecutive suboptimal presents since the last
                                \* non-suboptimal present or swapchain creation
    disturbed,                  \* a resize notification or stale result has occurred
    vkx_swap_chain,             \* vkx_core.h: VkxSwapChain vkx_swap_chain
    driver,                     \* live driver objects the swapchain manager created
    create_info,                \* the VkSwapchainCreateInfoKHR of the last creation
    swap_chain_support,         \* what the surface reported to the last creation
    create_depth_image,         \* argument of the running vkx_create_swap_chain
    want_depth,                 \* argument of the creation call in init_vulkan
    rc_log,                     \* steps of the running vkx_recreate_swap_chain
    oneshot_live,               \* a one-shot command buffer is allocated from the pool
    core_pc,                    \* position of the caller of the core's resource functions
    staging_buffer,             \* VkxBuffer staging_buffer of the running function
    buffer,                     \* VkxBuffer vkx_create_and_populate_buffer returns
    image,                      \* VkxImage vkx_create_texture_image returns
    objects,                    \* the driver's buffers, images, views and memory
    pending,                    \* the one-shot submission the queue is executing
    oneshot,                    \* the one-shot command buffer of the running function
    core_log,                   \* steps of the running function, in order
    failed,                     \* creation calls that failed without ending the process
    cleanups,                   \* cleanup calls made on buffer / image since created
    find_in,                    \* arguments of a vkx_find_memory_type call
    find_out,                   \* what that call came to
    live_objects,               \* what init_vulkan created and nothing has destroyed
    destroy_log,                \* what cleanup_vulkan has destroyed, in order
    destroyed_dead,             \* a destroy call was handed an object already destroyed
    submit_info,                \* draw_frame: VkSubmitInfo and fence of its vkQueueSubmit
    present_info,               \* draw_frame: VkPresentInfoKHR of its vkQueuePresentKHR
    image_state,                \* layout of each image of the swapchain
    vertices,                   \* vkx_create_and_populate_buffer: the caller's data
    buffer_size,                \* vkx_create_and_populate_buffer: VkDeviceSize buffer_size
    pick_in,                    \* what the instance enumerates to vkx_pick_physical_device
    pick_out,                   \* what vkx_init makes of the device picked
    choose_in,                  \* what the surface reports to a vkx_create_swap_chain call
    choose_out,                 \* what that call puts in its create info
    used,                       \* per-slot resources the running draw_frame call has used
    image_available_semaphores, \* slot -> state of the slot's image-acquired semaphore
    render_finished_semaphores, \* slot -> state of the slot's render-finished semaphore
    present_waits,              \* slot -> a present's wait on the slot's render-finished
                                \* semaphore is queued and has not executed
    color_format,               \* format the pipelines and offscreen images were created with
    offscreen_images,           \* slot -> layout of main.c: offscreen_images[slot]
    barriers,                   \* barriers record_command_buffer recorded in the running call
    transition_in,              \* arguments of a vkx_transition_image_layout call
    transition_out              \* what that call came to

vars == <<pc, running, current_frame, framebuffer_resized, suboptimal_swapchain_count,
          acquire_result, present_result, in_flight_fences, gpu_pending,
          transition_pending, command_buffers, swap_chain_alive, rc_site,
          entry_frame, entry_count, calls, events, run, disturbed,
          vkx_swap_chain, driver, create_info, swap_chain_support, create_depth_image,
          want_depth, rc_log, oneshot_live,
          core_pc, staging_buffer, buffer, image, objects, pending, oneshot, core_log,
          failed, cleanups, find_in, find_out,
          live_objects, destroy_log, destroyed_dead, submit_info, present_info,
          image_state, vertices, buffer_size, pick_in, pick_out, choose_in, choose_out,
          used, image_available_semaphores, render_finished_semaphores, present_waits,
          color_format, offscreen_images, barriers,
          transition_in, transition_out>>

\* The state of the frame loop.
frameVars == <<pc, running, current_frame, framebuffer_resized, suboptimal_swapchain_count,
               acquire_result, present_result, in_flight_fences, gpu_pending,
               transition_pending, command_buffers, swap_chain_alive, rc_site,
               entry_frame, entry_count, calls, events, run, disturbed>>

\* The state of the resource functions of the core.
coreVars == <<core_pc, staging_buffer, buffer, image, objects, pending, oneshot, core_log,
              failed, cleanups>>

\* One vkx_find_memory_type call.
findVars == <<find_in, find_out>>

\* What init_vulkan created and cleanup_vulkan destroys.
teardownVars == <<live_objects, destroy_log, destroyed_dead>>

\* The submission and the present of the running draw_frame call.
syncVars == <<submit_info, present_info>>

\* The arguments of the running vkx_create_and_populate_buffer call.
dataVars == <<vertices, buffer_size>>

\* One vkx_pick_physical_device call.
pickVars == <<pick_in, pick_out>>

\* The choices of one vkx_create_swap_chain call.
chooseVars == <<choose_in, choose_out>>

\* The per-slot resources of the frame loop and what a draw_frame call did to them.
slotVars == <<used, image_available_semaphores, render_finished_semaphores, present_waits,
              color_format, offscreen_images, barriers>>

\* One vkx_transition_image_layout call.
transitionVars == <<transition_in, transition_out>>

\* The state of the swapchain manager.
swapVars == <<vkx_swap_chain, driver, create_info, swap_chain_support, create_depth_image,
              want_depth, rc_log, oneshot_live>>

CallNames == {"fence_reset", "cb_reset", "cb_record", "ubo_write", "submit", "present", "recreate"}

NoCalls == [c \in CallNames |-> 0]

Bump(c, k) == [c EXCEPT ![k] = @ + 1]

----------------------------------------------------------------------------
\* vkx_core.c: memory types, buffers, images, one-shot command buffers

\* VkMemoryPropertyFlagBits, as the bit masks the source passes.
VK_MEMORY_PROPERTY_DEVICE_LOCAL_BIT == 1

VK_MEMORY_PROPERTY_HOST_VISIBLE_BIT == 2

VK_MEMORY_PROPERTY_HOST_COHERENT_BIT == 4

\* Length of the memory-type tables vkx_find_memory_type is tried on.
MaxMemoryTypes == 3

\* Most driver objects created by the resource functions in one run.
MaxObjects == 9

\* Most cleanup calls made on one VkxBuffer / VkxImage.
MaxCleanups == 2

\* a & b on unsigned integers.
RECURSIVE BitAnd(_, _)
BitAnd(a, b) ==
    IF a = 0 \/ b = 0
    THEN 0
    ELSE (a % 2) * (b % 2) + 2 * BitAnd(a \div 2, b \div 2)

\* vkx_find_memory_type found no type: it reports that and calls exit(1).
NoMemoryType == [exit |-> TRUE]

\* Faulty variant: a type that has any one of the requested properties is taken.
RECURSIVE FindMemoryType_AnyProperty(_, _, _, _)
FindMemoryType_AnyProperty(i, type_filter, properties, memory_types) ==
    IF i >= Len(memory_types)
    THEN NoMemoryType
    ELSE IF /\ BitAnd(type_filter, 2 ^ i) # 0
            /\ (properties = 0 \/ BitAnd(memory_types[i + 1], properties) # 0)
         THEN [index |-> i]
         ELSE FindMemoryType_AnyProperty(i + 1, type_filter, properties, memory_types)

\* vkx_find_memory_type(type_filter, properties): the loop over
\* mem_properties.memoryTypes from index i on; memory_types[i + 1] holds the
\* propertyFlags of type i.
RECURSIVE FindMemoryType(_, _, _, _)
FindMemoryType(i, type_filter, properties, memory_types) ==
    IF i >= Len(memory_types)
    THEN NoMemoryType
    ELSE IF /\ BitAnd(type_filter, 2 ^ i) # 0
            /\ BitAnd(memory_types[i + 1], properties) = properties
         THEN [index |-> i]
         ELSE FindMemoryType(i + 1, type_filter, properties, memory_types)

\* The memory types of the device the resource functions run on: device-local,
\* host-visible and coherent, and one with all three properties.
DeviceMemoryTypes ==
    <<VK_MEMORY_PROPERTY_DEVICE_LOCAL_BIT,
      VK_MEMORY_PROPERTY_HOST_VISIBLE_BIT + VK_MEMORY_PROPERTY_HOST_COHERENT_BIT,
      VK_MEMORY_PROPERTY_DEVICE_LOCAL_BIT + VK_MEMORY_PROPERTY_HOST_VISIBLE_BIT
         + VK_MEMORY_PROPERTY_HOST_COHERENT_BIT>>

\* The memoryTypeBits the driver may report for a resource.
TypeBits == 0 .. (2 ^ Len(DeviceMemoryTypes) - 1)

\* A VkxBuffer with both handles null.
NullBuffer == [buffer |-> NULL, memory |-> NULL]

\* Longest block of data handed to vkx_create_and_populate_buffer.
MaxBlockLen == 2

\* A block of n bytes that are all different: the i-th byte is i.
Block(n) == [i \in 1 .. n |-> i]

\* The content of n bytes nobody has written: 0 is no byte of a block.
Unwritten(n) == [i \in 1 .. n |-> 0]

\* memcpy(data, src, n): the bytes the mapped memory then holds.
Memcpy(src, n) == SubSeq(src, 1, n)

\* A copy with copy_region = {0} and copy_region.size = size: source offset 0,
\* destination offset 0, size bytes.
CopyRegion(dst, src, size) ==
    [i \in 1 .. Len(dst) |-> IF i <= size /\ i <= Len(src) THEN src[i] ELSE dst[i]]

\* A driver object: what it is, whether it is alive, how often it was
\* destroyed, and for a buffer or image what it was created with and the
\* size bytes it holds.
Object(kind, usage, properties, layout, size) ==
    [kind |-> kind, live |-> TRUE, destroys |-> 0, usage |-> usage,
     properties |-> properties, data |-> Unwritten(size), layout |-> layout,
     bound |-> TRUE]

\* The handle of the n-th object created.
ObjectHandle(n) == [id |-> n]

\* vkDestroy* / vkFreeMemory on a handle: VK_NULL_HANDLE is ignored.
Destroy(objs, handle) ==
    IF handle = NULL
    THEN objs
    ELSE [objs EXCEPT ![handle.id].live = FALSE, ![handle.id].destroys = @ + 1]

\* No submission.
NoCommand == [cmd |-> "none"]

\* What the outcomes of the driver calls of vkx_create_buffer / vkx_create_image
\* can be: all succeed, the object creation fails, the memory allocation fails.
CreateResults == {"ok", "object", "memory"}

\* vkx_create_buffer(): the process exits when vkCreateBuffer fails, when no
\* memory type suits, and when vkAllocateMemory fails.
CreateBufferExits(res, type_bits, properties) ==
    \/ res # "ok"
    \/ FindMemoryType(0, type_bits, properties, DeviceMemoryTypes) = NoMemoryType

\* vkx_create_buffer(): the VkxBuffer returned, its objects appended to objs.
CreateBuffer(objs) ==
    [buffer |-> ObjectHandle(Len(objs) + 1), memory |-> ObjectHandle(Len(objs) + 2)]

\* The order of the steps of vkx_create_and_populate_buffer and
\* vkx_create_texture_image: the position after each position.
NextPc ==
    [up_staging |-> "up_map", up_map |-> "up_dest", up_dest |-> "up_copy",
     up_copy |-> "up_copy_wait", up_copy_wait |-> "up_destroy",
     up_destroy |-> "up_returned",
     tex_staging |-> "tex_map", tex_map |-> "tex_image", tex_image |-> "tex_to_dst",
     tex_to_dst |-> "tex_to_dst_wait", tex_to_dst_wait |-> "tex_copy",
     tex_copy |-> "tex_copy_wait", tex_copy_wait |-> "tex_to_read",
     tex_to_read |-> "tex_to_read_wait", tex_to_read_wait |-> "tex_destroy",
     tex_destroy |-> "tex_view", tex_view |-> "tex_returned"]

----------------------------------------------------------------------------
\* main.c, vkx_init.c: the driver objects of a run

\* src/src/main.c:188: the length of the texture array, _TEX_COUNT.
num_textures == 5

\* One thing init_vulkan() creates and keeps: a driver object, or the handles
\* one VkxBuffer, VkxImage or VkxPipeline holds.
Created(kind, index) == [kind |-> kind, index |-> index]

\* The sequences of ss, one after the other.
RECURSIVE Concat(_)
Concat(ss) == IF ss = << >> THEN << >> ELSE Head(ss) \o Concat(Tail(ss))

\* What vkx_init() and init_vulkan() create, in the order they create it, the
\* swapchain and its images and views apart.  The debug messenger is looked up
\* and never created; shader modules and staging buffers are destroyed by the
\* function that creates them; descriptor sets and command buffers live and
\* die with their pool.
InitOrder ==
    <<Created("instance", 0), Created("surface", 0), Created("device", 0),
      Created("command_pool", 0),
      Created("tile_pipeline", 0), Created("sprite_pipeline", 0),
      Created("screen_pipeline", 0),
      Created("vertex_buffer", 0), Created("index_buffer", 0),
      Created("sprite_vertex_buffer", 0)>>
    \o [i \in 1 .. num_textures |-> Created("texture", i - 1)]
    \o <<Created("sampler", 0)>>
    \o [i \in 1 .. VKX_FRAMES_IN_FLIGHT |-> Created("uniform_buffer", i - 1)]
    \o Concat([i \in 1 .. VKX_FRAMES_IN_FLIGHT |->
                 <<Created("offscreen_image", i - 1), Created("depth_image", i - 1)>>])
    \o <<Created("descriptor_pool", 0)>>
    \o Concat([i \in 1 .. VKX_FRAMES_IN_FLIGHT |->
                 <<Created("image_available_semaphore", i - 1),
                   Created("render_finished_semaphore", i - 1),
                   Created("in_flight_fence", i - 1)>>])

\* Faulty variant: the device is destroyed before the sync objects and the
\* offscreen images.
CleanupOrder_DeviceEarly ==
    <<Created("sampler", 0)>>
    \o [i \in 1 .. num_textures |-> Created("texture", i - 1)]
    \o [i \in 1 .. VKX_FRAMES_IN_FLIGHT |-> Created("uniform_buffer", i - 1)]
    \o <<Created("descriptor_pool", 0),
         Created("tile_pipeline", 0), Created("screen_pipeline", 0),
         Created("sprite_pipeline", 0),
         Created("vertex_buffer", 0), Created("index_buffer", 0),
         Created("sprite_vertex_buffer", 0),
         Created("command_pool", 0), Created("device", 0)>>
    \o Concat([i \in 1 .. VKX_FRAMES_IN_FLIGHT |->
                 <<Created("render_finished_semaphore", i - 1),
                   Created("image_available_semaphore", i - 1),
                   Created("in_flight_fence", i - 1)>>])
    \o Concat([i \in 1 .. VKX_FRAMES_IN_FLIGHT |->
                 <<Created("offscreen_image", i - 1), Created("depth_image", i - 1)>>])
    \o <<Created("surface", 0), Created("instance", 0)>>

\* What cleanup_vulkan() destroys after vkx_cleanup_swap_chain(), in the order
\* of its calls; the last four are vkx_cleanup_instance().
CleanupOrder ==
    <<Created("sampler", 0)>>
    \o [i \in 1 .. num_textures |-> Created("texture", i - 1)]
    \o [i \in 1 .. VKX_FRAMES_IN_FLIGHT |-> Created("uniform_buffer", i - 1)]
    \o <<Created("descriptor_pool", 0),
         Created("tile_pipeline", 0), Created("screen_pipeline", 0),
         Created("sprite_pipeline", 0),
         Created("vertex_buffer", 0), Created("index_buffer", 0),
         Created("sprite_vertex_buffer", 0)>>
    \o Concat([i \in 1 .. VKX_FRAMES_IN_FLIGHT |->
                 <<Created("render_finished_semaphore", i - 1),
                   Created("image_available_semaphore", i - 1),
                   Created("in_flight_fence", i - 1)>>])
    \o Concat([i \in 1 .. VKX_FRAMES_IN_FLIGHT |->
                 <<Created("offscreen_image", i - 1), Created("depth_image", i - 1)>>])
    \o <<Created("command_pool", 0), Created("device", 0), Created("surface", 0),
         Created("instance", 0)>>

\* The destroy calls of order made one after the other on the live objects:
\* what is left alive, and whether a call was handed an object not alive.
RECURSIVE DestroyAll(_, _)
DestroyAll(state, order) ==
    IF order = << >>
    THEN state
    ELSE DestroyAll([live |-> state.live \ {Head(order)},
                     dead |-> state.dead \/ Head(order) \notin state.live],
                    Tail(order))

\* The layout init_vulkan() asks for in its one-shot transition of an offscreen image.
SetupLayout == "SHADER_READ_ONLY_OPTIMAL"

\* What init_vulkan() leaves an offscreen image in: vkx_create_image, then
\* vkx_transition_image_layout_tmp_buffer to SetupLayout.  The one-shot command
\* buffer comes from vkx_begin_single_time_commands(), which does not read the
\* result of vkAllocateCommandBuffers: when that fails and the process goes on,
\* nothing was submitted and the image is still in VK_IMAGE_LAYOUT_UNDEFINED.
OffscreenSetups == {[layout |-> SetupLayout], [layout |-> "UNDEFINED"]}

\* State after init_vulkan(): swapchain created (command buffer 0 still holds the
\* layout transitions, the queue was waited idle), fences created signaled.
\* init_vulkan() itself asks for no depth image; the swapchain manager takes
\* either argument, so both are started from.
FrameInit ==
    /\ pc = "poll"
    /\ running = TRUE
    /\ current_frame = 0
    /\ framebuffer_resized = FALSE
    /\ suboptimal_swapchain_count = 0
    /\ acquire_result = "none"
    /\ present_result = "none"
    /\ in_flight_fences = [i \in Slots |-> TRUE]
    /\ gpu_pending = [i \in Slots |-> FALSE]
    /\ transition_pending = FALSE
    /\ command_buffers = [i \in Slots |-> IF i = 0 THEN "transition" ELSE "initial"]
    /\ swap_chain_alive = TRUE
    /\ rc_site = "none"
    /\ entry_frame = 0
    /\ entry_count = 0
    /\ calls = NoCalls
    /\ events = 0
    /\ run = 0
    /\ disturbed = FALSE
    /\ \E support \in UsableSurfaces, depth \in BOOLEAN, memory_ok \in BOOLEAN,
          extra \in 0 .. MaxExtraImages :
         /\ swap_chain_support = support
         /\ create_info = SwapchainCreateInfo(support)
         /\ create_depth_image = depth
         /\ want_depth = depth
         /\ vkx_swap_chain =
              [images_count |-> create_info.minImageCount + extra,
               images |-> SwapChainImages(create_info.minImageCount + extra),
               image_views |-> ImageViews(SwapChainImages(create_info.minImageCount + extra)),
               image_format |-> create_info.imageFormat,
               extent |-> create_info.imageExtent,
               has_depth_image |-> depth,
               depth_image |-> IF depth
                               THEN [DepthImage(create_info.imageExtent, memory_ok)
                                       EXCEPT !.view = Handle("view")]
                               ELSE NullImage]
         /\ driver = [swapchains |-> 1,
                      image_views |-> create_info.minImageCount + extra,
                      depth_images |-> IF depth THEN 1 ELSE 0]
    /\ rc_log = << >>
    /\ oneshot_live = FALSE
    /\ image_state = ApplyBarriers(RetrievedImages(vkx_swap_chain.images_count),
                                 TransitionBarriers(vkx_swap_chain.images_count))
    /\ submit_info = NoInfo
    /\ present_info = NoInfo
    /\ live_objects = {InitOrder[i] : i \in 1 .. Len(InitOrder)}
    /\ destroy_log = << >>
    /\ destroyed_dead = FALSE
    /\ used = {}
    /\ image_available_semaphores = [i \in Slots |-> "unsignaled"]
    /\ render_finished_semaphores = [i \in Slots |-> "unsignaled"]
    /\ present_waits = [i \in Slots |-> FALSE]
    /\ color_format = vkx_swap_chain.image_format
    /\ offscreen_images \in [Slots -> OffscreenSetups]
    /\ barriers = << >>

\* No resource function has run: nothing created, nothing submitted.
CoreInit ==
    /\ core_pc = "idle"
    /\ staging_buffer = NullBuffer
    /\ buffer = NullBuffer
    /\ image = NullImage
    /\ objects = << >>
    /\ pending = NoCommand
    /\ oneshot = "none"
    /\ core_log = << >>
    /\ failed = {}
    /\ cleanups = [buffer |-> 0, image |-> 0]
    /\ vertices = << >>
    /\ buffer_size = 0

\* No vkx_find_memory_type call is looked at.
FindIdle ==
    /\ find_in = [type_filter |-> 0, properties |-> 0, memory_types |-> << >>]
    /\ find_out = [called |-> FALSE]

\* No vkx_pick_physical_device call is looked at.
PickIdle ==
    /\ pick_in = << >>
    /\ pick_out = [called |-> FALSE]

\* No choice of vkx_create_swap_chain is looked at on its own.
ChooseIdle ==
    /\ choose_in = [given |-> FALSE]
    /\ choose_out = [called |-> FALSE]

\* No vkx_transition_image_layout call is looked at on its own.
TransitionIdle ==
    /\ transition_in = [given |-> FALSE]
    /\ transition_out = [called |-> FALSE]

Init == FrameInit /\ CoreInit /\ FindIdle /\ PickIdle /\ ChooseIdle /\ TransitionIdle

----------------------------------------------------------------------------
\* main(): the event loop

PollEvent(e) ==
    /\ pc = "poll"
    /\ running' = IF e = "QUIT" THEN FALSE ELSE running
    /\ framebuffer_resized' = IF e = "F11" THEN TRUE ELSE framebuffer_resized
    /\ disturbed' = (disturbed \/ e = "F11")
    /\ UNCHANGED <<pc, current_frame, suboptimal_swapchain_count, acquire_result,
                   present_result, in_flight_fences, gpu_pending, transition_pending,
                   command_buffers, swap_chain_alive, rc_site, entry_frame, entry_count, calls,
                   events, run,
                   swapVars>>
    /\ UNCHANGED <<coreVars, findVars>>
    /\ UNCHANGED <<teardownVars, syncVars, image_state, dataVars, pickVars, chooseVars, slotVars, transitionVars>>

\* No more events: update(dt), then draw_frame() is entered.
EnterDrawFrame ==
    /\ pc = "poll"
    /\ used' = {}
    /\ barriers' = << >>
    /\ pc' = "wait"
    /\ entry_frame' = current_frame
    /\ entry_count' = suboptimal_swapchain_count
    /\ calls' = NoCalls
    /\ events' = 0
    /\ present_result' = "none"
    /\ rc_site' = "none"
    /\ submit_info' = NoInfo
    /\ present_info' = NoInfo
    /\ UNCHANGED <<running, current_frame, framebuffer_resized, suboptimal_swapchain_count,
                   acquire_result, in_flight_fences, gpu_pending, transition_pending, command_buffers,
                   swap_chain_alive, run, disturbed,
                   swapVars>>
    /\ UNCHANGED <<coreVars, findVars>>
    /\ UNCHANGED <<teardownVars, image_state, dataVars, pickVars, chooseVars, transitionVars>>
    /\ UNCHANGED <<image_available_semaphores, render_finished_semaphores, present_waits,
                   color_format, offscreen_images>>

\* draw_frame() has returned: t_last = t and the while (running) test.
LoopCheck ==
    /\ pc = "returned"
    /\ pc' = IF running THEN "poll" ELSE "shutdown"
    /\ UNCHANGED <<running, current_frame, framebuffer_resized, suboptimal_swapchain_count,
                   acquire_result, present_result, in_flight_fences, gpu_pending,
                   transition_pending, command_buffers, swap_chain_alive, rc_site,
                   entry_frame, entry_count, calls, events, run, disturbed,
                   swapVars>>
    /\ UNCHANGED <<coreVars, findVars>>
    /\ UNCHANGED <<teardownVars, syncVars, image_state, dataVars, pickVars, chooseVars, slotVars, transitionVars>>

----------------------------------------------------------------------------
\* draw_frame()

\* Faulty variant: the fence wait returns without waiting.
WaitForFences_NoWait ==
    /\ pc = "wait"
    /\ used' = used \cup {Use("in_flight_fences", current_frame)}
    /\ pc' = "acquire"
    /\ UNCHANGED <<running, current_frame, framebuffer_resized, suboptimal_swapchain_count,
                   acquire_result, present_result, in_flight_fences, gpu_pending,
                   transition_pending, command_buffers, swap_chain_alive, rc_site,
                   entry_frame, entry_count, calls, events, run, disturbed,
                   swapVars>>
    /\ UNCHANGED <<coreVars, findVars>>
    /\ UNCHANGED <<teardownVars, syncVars, image_state, dataVars, pickVars, chooseVars, transitionVars>>
    /\ UNCHANGED <<image_available_semaphores, render_finished_semaphores, present_waits,
                   color_format, offscreen_images, barriers>>

\* Faulty variant: the fence is reset right after the wait, before the acquire.
WaitForFences_ResetEarly ==
    /\ pc = "wait"
    /\ used' = used \cup {Use("in_flight_fences", current_frame)}
    /\ in_flight_fences[current_frame]
    /\ in_flight_fences' = [in_flight_fences EXCEPT ![current_frame] = FALSE]
    /\ calls' = Bump(calls, "fence_reset")
    /\ pc' = "acquire"
    /\ UNCHANGED <<running, current_frame, framebuffer_resized, suboptimal_swapchain_count,
                   acquire_result, present_result, gpu_pending, transition_pending,
                   command_buffers, swap_chain_alive, rc_site, entry_frame, entry_count, events, run,
                   disturbed,
                   swapVars>>
    /\ UNCHANGED <<coreVars, findVars>>
    /\ UNCHANGED <<teardownVars, syncVars, image_state, dataVars, pickVars, chooseVars, transitionVars>>
    /\ UNCHANGED <<image_available_semaphores, render_finished_semaphores, present_waits,
                   color_format, offscreen_images, barriers>>

\* vkWaitForFences(in_flight_fences[current_frame], UINT64_MAX): blocks until the
\* slot's fence is signaled.
WaitForFences ==
    /\ pc = "wait"
    /\ used' = used \cup {Use("in_flight_fences", current_frame)}
    /\ in_flight_fences[current_frame]
    /\ pc' = "acquire"
    /\ UNCHANGED <<running, current_frame, framebuffer_resized, suboptimal_swapchain_count,
                   acquire_result, present_result, in_flight_fences, gpu_pending,
                   transition_pending, command_buffers, swap_chain_alive, rc_site,
                   entry_frame, entry_count, calls, events, run, disturbed,
                   swapVars>>
    /\ UNCHANGED <<coreVars, findVars>>
    /\ UNCHANGED <<teardownVars, syncVars, image_state, dataVars, pickVars, chooseVars, transitionVars>>
    /\ UNCHANGED <<image_available_semaphores, render_finished_semaphores, present_waits,
                   color_format, offscreen_images, barriers>>

\* Faulty variant: only VK_SUCCESS lets the frame proceed; a suboptimal acquire is fatal.
AcquireNextImage_SuboptimalFatal(r) ==
    /\ pc = "acquire"
    /\ used' = used \cup {Use("image_available_semaphores", current_frame)}
    /\ image_available_semaphores' =
          IF r \in {VK_SUCCESS, VK_SUBOPTIMAL_KHR}
          THEN [image_available_semaphores EXCEPT ![current_frame] = "signaled"]
          ELSE image_available_semaphores
    /\ acquire_result' = r
    /\ IF r = VK_ERROR_OUT_OF_DATE_KHR
       THEN /\ pc' = "rc_idle"
            /\ rc_site' = "acquire"
            /\ calls' = Bump(calls, "recreate")
            /\ events' = events + 1
            /\ disturbed' = TRUE
       ELSE /\ pc' = IF r = VK_SUCCESS THEN "memcpy" ELSE "exited"
            /\ UNCHANGED <<rc_site, calls, events, disturbed>>
    /\ UNCHANGED <<running, current_frame, framebuffer_resized, suboptimal_swapchain_count,
                   present_result, in_flight_fences, gpu_pending, transition_pending,
                   command_buffers, swap_chain_alive, entry_frame, entry_count, run,
                   swapVars>>
    /\ UNCHANGED <<coreVars, findVars>>
    /\ UNCHANGED <<teardownVars, syncVars, image_state, dataVars, pickVars, chooseVars, transitionVars>>
    /\ UNCHANGED <<render_finished_semaphores, present_waits, color_format,
                   offscreen_images, barriers>>

\* vkAcquireNextImageKHR(image_available_semaphores[current_frame]) and the
\* classification of its result: a successful or suboptimal acquire signals
\* the semaphore, any other result leaves it alone.
AcquireNextImage(r) ==
    /\ pc = "acquire"
    /\ used' = used \cup {Use("image_available_semaphores", current_frame)}
    /\ image_available_semaphores' =
          IF r \in {VK_SUCCESS, VK_SUBOPTIMAL_KHR}
          THEN [image_available_semaphores EXCEPT ![current_frame] = "signaled"]
          ELSE image_available_semaphores
    /\ acquire_result' = r
    /\ IF r = VK_ERROR_OUT_OF_DATE_KHR
       THEN /\ pc' = "rc_idle"
            /\ rc_site' = "acquire"
            /\ calls' = Bump(calls, "recreate")
            /\ events' = events + 1
            /\ disturbed' = TRUE
       ELSE /\ pc' = IF r \in {VK_SUCCESS, VK_SUBOPTIMAL_KHR} THEN "memcpy" ELSE "exited"
            /\ UNCHANGED <<rc_site, calls, events, disturbed>>
    /\ UNCHANGED <<running, current_frame, framebuffer_resized, suboptimal_swapchain_count,
                   present_result, in_flight_fences, gpu_pending, transition_pending,
                   command_buffers, swap_chain_alive, entry_frame, entry_count, run,
                   swapVars>>
    /\ UNCHANGED <<coreVars, findVars>>
    /\ UNCHANGED <<teardownVars, syncVars, image_state, dataVars, pickVars, chooseVars, transitionVars>>
    /\ UNCHANGED <<render_finished_semaphores, present_waits, color_format,
                   offscreen_images, barriers>>

\* memcpy(uniform_buffers_mapped[current_frame], &ubo, sizeof(ubo))
WriteUniformBuffer ==
    /\ pc = "memcpy"
    /\ used' = used \cup {Use("uniform_buffers_mapped", current_frame)}
    /\ calls' = Bump(calls, "ubo_write")
    /\ pc' = "reset_fence"
    /\ UNCHANGED <<running, current_frame, framebuffer_resized, suboptimal_swapchain_count,
                   acquire_result, present_result, in_flight_fences, gpu_pending,
                   transition_pending, command_buffers, swap_chain_alive, rc_site,
                   entry_frame, entry_count, events, run, disturbed,
                   swapVars>>
    /\ UNCHANGED <<coreVars, findVars>>
    /\ UNCHANGED <<teardownVars, syncVars, image_state, dataVars, pickVars, chooseVars, transitionVars>>
    /\ UNCHANGED <<image_available_semaphores, render_finished_semaphores, present_waits,
                   color_format, offscreen_images, barriers>>

\* vkResetFences(in_flight_fences[current_frame])
ResetFences ==
    /\ pc = "reset_fence"
    /\ used' = used \cup {Use("in_flight_fences", current_frame)}
    /\ in_flight_fences' = [in_flight_fences EXCEPT ![current_frame] = FALSE]
    /\ calls' = Bump(calls, "fence_reset")
    /\ pc' = "reset_cb"
    /\ UNCHANGED <<running, current_frame, framebuffer_resized, suboptimal_swapchain_count,
                   acquire_result, present_result, gpu_pending, transition_pending,
                   command_buffers, swap_chain_alive, rc_site, entry_frame, entry_count, events, run,
                   disturbed,
                   swapVars>>
    /\ UNCHANGED <<coreVars, findVars>>
    /\ UNCHANGED <<teardownVars, syncVars, image_state, dataVars, pickVars, chooseVars, transitionVars>>
    /\ UNCHANGED <<image_available_semaphores, render_finished_semaphores, present_waits,
                   color_format, offscreen_images, barriers>>

\* vkResetCommandBuffer(command_buffers[current_frame], 0)
ResetCommandBuffer ==
    /\ pc = "reset_cb"
    /\ used' = used \cup {Use("command_buffers", current_frame)}
    /\ command_buffers' = [command_buffers EXCEPT ![current_frame] = "initial"]
    /\ calls' = Bump(calls, "cb_reset")
    /\ pc' = "record"
    /\ UNCHANGED <<running, current_frame, framebuffer_resized, suboptimal_swapchain_count,
                   acquire_result, present_result, in_flight_fences, gpu_pending,
                   transition_pending, swap_chain_alive, rc_site, entry_frame, entry_count, events, run,
                   disturbed,
                   swapVars>>
    /\ UNCHANGED <<coreVars, findVars>>
    /\ UNCHANGED <<teardownVars, syncVars, image_state, dataVars, pickVars, chooseVars, transitionVars>>
    /\ UNCHANGED <<image_available_semaphores, render_finished_semaphores, present_waits,
                   color_format, offscreen_images, barriers>>

\* record_command_buffer(command_buffers[current_frame], image_index); ok is
\* whether vkBeginCommandBuffer and vkEndCommandBuffer both returned VK_SUCCESS.
\* image_index is the index vkAcquireNextImageKHR stored, which nothing reads
\* before the recording.  The barriers are kept in recording order, which is
\* the order the queue executes them in.
RecordCommandBuffer(ok, image_index) ==
    /\ pc = "record"
    /\ calls' = Bump(calls, "cb_record")
    /\ used' = used \cup RecordedResources(current_frame)
    /\ LET swap_image == ImageRef("swap_chain", image_index)
           offscreen == ImageRef("offscreen", current_frame)
           recorded == RecordTransitions(
               FrameTransitions(image_index, current_frame, vkx_swap_chain.image_format),
               (swap_image :> image_state[image_index].layout)
                   @@ (offscreen :> offscreen_images[current_frame].layout),
               << >>)
       IN  IF ok
           THEN /\ barriers' = recorded.log
                /\ image_state' = [image_state EXCEPT
                                     ![image_index].layout = recorded.layouts[swap_image]]
                /\ offscreen_images' = [offscreen_images EXCEPT
                                          ![current_frame].layout = recorded.layouts[offscreen]]
                /\ command_buffers' = [command_buffers EXCEPT ![current_frame] =
                                          IF recorded.exited THEN "invalid" ELSE "frame"]
                /\ pc' = IF recorded.exited THEN "exited" ELSE "submit"
           ELSE /\ command_buffers' = [command_buffers EXCEPT ![current_frame] = "invalid"]
                /\ pc' = "exited"
                /\ UNCHANGED <<barriers, image_state, offscreen_images>>
    /\ UNCHANGED <<running, current_frame, framebuffer_resized, suboptimal_swapchain_count,
                   acquire_result, present_result, in_flight_fences, gpu_pending,
                   transition_pending, swap_chain_alive, rc_site, entry_frame, entry_count, events, run,
                   disturbed,
                   swapVars>>
    /\ UNCHANGED <<coreVars, findVars>>
    /\ UNCHANGED <<teardownVars, syncVars, dataVars, pickVars, chooseVars, transitionVars>>
    /\ UNCHANGED <<image_available_semaphores, render_finished_semaphores, present_waits,
                   color_format>>

\* vkQueueSubmit(graphics_queue, &submit_info, in_flight_fences[current_frame]);
\* ok is whether it returned VK_SUCCESS.
QueueSubmit(ok) ==
    /\ pc = "submit"
    /\ calls' = Bump(calls, "submit")
    /\ submit_info' = SubmitInfo(current_frame)
    /\ used' = used \cup SubmittedResources(submit_info')
    /\ gpu_pending' = [gpu_pending EXCEPT ![current_frame] = ok]
    /\ pc' = IF ok THEN "present" ELSE "exited"
    /\ UNCHANGED <<running, current_frame, framebuffer_resized, suboptimal_swapchain_count,
                   acquire_result, present_result, in_flight_fences, transition_pending,
                   command_buffers, swap_chain_alive, rc_site, entry_frame, entry_count, events, run,
                   disturbed,
                   swapVars>>
    /\ UNCHANGED <<coreVars, findVars>>
    /\ UNCHANGED <<teardownVars, present_info, image_state, dataVars, pickVars, chooseVars, transitionVars>>
    /\ UNCHANGED <<image_available_semaphores, render_finished_semaphores, present_waits,
                   color_format, offscreen_images, barriers>>

\* Faulty variant: the else branch that clears the counter is missing.
CountAfterPresent_NoReset(r, count) ==
    IF r = VK_SUBOPTIMAL_KHR THEN count + 1 ELSE count

\* suboptimal_swapchain_count after a present that returned r
CountAfterPresent(r, count) ==
    IF r = VK_SUBOPTIMAL_KHR THEN count + 1 ELSE 0

\* vkQueuePresentKHR and the update of the suboptimal counter that follows it.
\* Whatever the result, the wait on pWaitSemaphores is queued.
QueuePresent(r) ==
    /\ pc = "present"
    /\ r = VK_SUBOPTIMAL_KHR => suboptimal_swapchain_count < MaxSuboptimalCount
    /\ present_result' = r
    /\ present_info' = PresentInfo(submit_info)
    /\ used' = used \cup PresentedResources(present_info')
    /\ present_waits' = [present_waits EXCEPT ![present_info'.pWaitSemaphores[1].slot] = TRUE]
    /\ calls' = Bump(calls, "present")
    /\ suboptimal_swapchain_count' = CountAfterPresent(r, suboptimal_swapchain_count)
    /\ run' = IF r = VK_SUBOPTIMAL_KHR THEN run + 1 ELSE 0
    /\ events' = events
                 + (IF r = VK_ERROR_OUT_OF_DATE_KHR THEN 1 ELSE 0)
                 + (IF suboptimal_swapchain_count' >= SUBOPTIMAL_SWAPCHAIN_THRESHOLD THEN 1 ELSE 0)
                 + (IF framebuffer_resized THEN 1 ELSE 0)
    /\ disturbed' = (disturbed \/ r = VK_ERROR_OUT_OF_DATE_KHR)
    /\ pc' = "post"
    /\ UNCHANGED <<running, current_frame, framebuffer_resized, acquire_result,
                   in_flight_fences, gpu_pending, transition_pending, command_buffers,
                   swap_chain_alive, rc_site, entry_frame, entry_count,
                   swapVars>>
    /\ UNCHANGED <<coreVars, findVars>>
    /\ UNCHANGED <<teardownVars, submit_info, image_state, dataVars, pickVars, chooseVars, transitionVars>>
    /\ UNCHANGED <<image_available_semaphores, render_finished_semaphores, color_format,
                   offscreen_images, barriers>>

\* Faulty variant: a present error is tested before the resize flag.
PresentBranch_FatalFirst(resized, count, r) ==
    IF r # VK_SUBOPTIMAL_KHR /\ r # VK_SUCCESS /\ r # VK_ERROR_OUT_OF_DATE_KHR THEN "fatal"
    ELSE IF resized THEN "resize"
    ELSE IF count >= SUBOPTIMAL_SWAPCHAIN_THRESHOLD THEN "debounce"
    ELSE IF r = VK_ERROR_OUT_OF_DATE_KHR THEN "present_stale"
    ELSE "none"

\* Faulty variant: the stale present result is tested before the resize flag.
PresentBranch_StaleFirst(resized, count, r) ==
    IF r = VK_ERROR_OUT_OF_DATE_KHR THEN "present_stale"
    ELSE IF resized THEN "resize"
    ELSE IF count >= SUBOPTIMAL_SWAPCHAIN_THRESHOLD THEN "debounce"
    ELSE IF r # VK_SUBOPTIMAL_KHR /\ r # VK_SUCCESS THEN "fatal"
    ELSE "none"

\* Faulty variant: the debounce test uses > where the source uses >=.
PresentBranch_OffByOne(resized, count, r) ==
    IF resized THEN "resize"
    ELSE IF count > SUBOPTIMAL_SWAPCHAIN_THRESHOLD THEN "debounce"
    ELSE IF r = VK_ERROR_OUT_OF_DATE_KHR THEN "present_stale"
    ELSE IF r # VK_SUBOPTIMAL_KHR /\ r # VK_SUCCESS THEN "fatal"
    ELSE "none"

\* Which branch of the if / else-if chain after the present is taken.
PresentBranch(resized, count, r) ==
    IF resized THEN "resize"
    ELSE IF count >= SUBOPTIMAL_SWAPCHAIN_THRESHOLD THEN "debounce"
    ELSE IF r = VK_ERROR_OUT_OF_DATE_KHR THEN "present_stale"
    ELSE IF r # VK_SUBOPTIMAL_KHR /\ r # VK_SUCCESS THEN "fatal"
    ELSE "none"

\* The if / else-if chain after the present.
HandlePresentResult ==
    /\ pc = "post"
    /\ LET b == PresentBranch(framebuffer_resized, suboptimal_swapchain_count, present_result)
       IN /\ framebuffer_resized' = IF b = "resize" THEN FALSE ELSE framebuffer_resized
          /\ suboptimal_swapchain_count' =
                IF b = "debounce" THEN 0 ELSE suboptimal_swapchain_count
          /\ IF b \in {"resize", "debounce", "present_stale"}
             THEN /\ pc' = "rc_idle"
                  /\ rc_site' = b
                  /\ calls' = Bump(calls, "recreate")
             ELSE /\ pc' = IF b = "fatal" THEN "exited" ELSE "advance"
                  /\ UNCHANGED <<rc_site, calls>>
    /\ UNCHANGED <<running, current_frame, acquire_result, present_result,
                   in_flight_fences, gpu_pending, transition_pending, command_buffers,
                   swap_chain_alive, entry_frame, entry_count, events, run, disturbed,
                   swapVars>>
    /\ UNCHANGED <<coreVars, findVars>>
    /\ UNCHANGED <<teardownVars, syncVars, image_state, dataVars, pickVars, chooseVars, slotVars, transitionVars>>

\* current_frame = (current_frame + 1) % VKX_FRAMES_IN_FLIGHT, then return.
AdvanceFrame ==
    /\ pc = "advance"
    /\ current_frame' = (current_frame + 1) % VKX_FRAMES_IN_FLIGHT
    /\ pc' = "returned"
    /\ UNCHANGED <<running, framebuffer_resized, suboptimal_swapchain_count,
                   acquire_result, present_result, in_flight_fences, gpu_pending,
                   transition_pending, command_buffers, swap_chain_alive, rc_site,
                   entry_frame, entry_count, calls, events, run, disturbed,
                   swapVars>>
    /\ UNCHANGED <<coreVars, findVars>>
    /\ UNCHANGED <<teardownVars, syncVars, image_state, dataVars, pickVars, chooseVars, slotVars, transitionVars>>

----------------------------------------------------------------------------
\* vkx_recreate_swap_chain()

\* vkDeviceWaitIdle(device): blocks until no submission is executing.
DeviceIdle ==
    /\ \A i \in Slots : ~gpu_pending[i]
    /\ ~transition_pending

\* Faulty variant: the old objects are destroyed without waiting for the device.
RecreateWaitIdle_NoWait ==
    /\ pc = "rc_idle"
    /\ pc' = "rc_cleanup"
    /\ rc_log' = <<"wait_idle">>
    /\ UNCHANGED <<running, current_frame, framebuffer_resized, suboptimal_swapchain_count,
                   acquire_result, present_result, in_flight_fences, gpu_pending,
                   transition_pending, command_buffers, swap_chain_alive, rc_site,
                   entry_frame, entry_count, calls, events, run, disturbed,
                   vkx_swap_chain, driver, create_info, swap_chain_support,
                   create_depth_image, want_depth, oneshot_live>>
    /\ UNCHANGED <<coreVars, findVars>>
    /\ UNCHANGED <<teardownVars, syncVars, image_state, dataVars, pickVars, chooseVars, slotVars, transitionVars>>

\* vkx_recreate_swap_chain(): SDL_GetWindowSize (result unused), vkDeviceWaitIdle.
RecreateWaitIdle ==
    /\ pc = "rc_idle"
    /\ DeviceIdle
    /\ pc' = "rc_cleanup"
    /\ rc_log' = <<"wait_idle">>
    /\ UNCHANGED <<running, current_frame, framebuffer_resized, suboptimal_swapchain_count,
                   acquire_result, present_result, in_flight_fences, gpu_pending,
                   transition_pending, command_buffers, swap_chain_alive, rc_site,
                   entry_frame, entry_count, calls, events, run, disturbed,
                   vkx_swap_chain, driver, create_info, swap_chain_support,
                   create_depth_image, want_depth, oneshot_live>>
    /\ UNCHANGED <<coreVars, findVars>>
    /\ UNCHANGED <<teardownVars, syncVars, image_state, dataVars, pickVars, chooseVars, slotVars, transitionVars>>

\* Faulty variant: the depth flag is cleared together with the depth image.
CleanupDepthImage_ClearFlag ==
    /\ pc = "rc_cleanup"
    /\ IF vkx_swap_chain.has_depth_image
       THEN /\ vkx_swap_chain' = [vkx_swap_chain EXCEPT
                                    !.depth_image = CleanupImage(@),
                                    !.has_depth_image = FALSE]
            /\ driver' = [driver EXCEPT !.depth_images =
                            IF vkx_swap_chain.depth_image.image # NULL THEN @ - 1 ELSE @]
            /\ rc_log' = Append(rc_log, "destroy_depth")
       ELSE UNCHANGED <<vkx_swap_chain, driver, rc_log>>
    /\ pc' = "rc_cleanup_views"
    /\ UNCHANGED <<running, current_frame, framebuffer_resized, suboptimal_swapchain_count,
                   acquire_result, present_result, in_flight_fences, gpu_pending,
                   transition_pending, command_buffers, swap_chain_alive, rc_site,
                   entry_frame, entry_count, calls, events, run, disturbed,
                   create_info, swap_chain_support, create_depth_image, want_depth,
                   oneshot_live>>
    /\ UNCHANGED <<coreVars, findVars>>
    /\ UNCHANGED <<teardownVars, syncVars, image_state, dataVars, pickVars, chooseVars, slotVars, transitionVars>>

\* vkx_cleanup_swap_chain(), first part: the depth image, if there is one.
CleanupDepthImage ==
    /\ pc = "rc_cleanup"
    /\ IF vkx_swap_chain.has_depth_image
       THEN /\ vkx_swap_chain' = [vkx_swap_chain EXCEPT !.depth_image = CleanupImage(@)]
            /\ driver' = [driver EXCEPT !.depth_images =
                            IF vkx_swap_chain.depth_image.image # NULL THEN @ - 1 ELSE @]
            /\ rc_log' = Append(rc_log, "destroy_depth")
       ELSE UNCHANGED <<vkx_swap_chain, driver, rc_log>>
    /\ pc' = "rc_cleanup_views"
    /\ UNCHANGED <<running, current_frame, framebuffer_resized, suboptimal_swapchain_count,
                   acquire_result, present_result, in_flight_fences, gpu_pending,
                   transition_pending, command_buffers, swap_chain_alive, rc_site,
                   entry_frame, entry_count, calls, events, run, disturbed,
                   create_info, swap_chain_support, create_depth_image, want_depth,
                   oneshot_live>>
    /\ UNCHANGED <<coreVars, findVars>>
    /\ UNCHANGED <<teardownVars, syncVars, image_state, dataVars, pickVars, chooseVars, slotVars, transitionVars>>

\* Faulty variant: the arrays are freed but images_count keeps its value.
CleanupImageViews_KeepCount ==
    /\ pc = "rc_cleanup_views"
    /\ driver' = [driver EXCEPT !.image_views = @ - vkx_swap_chain.images_count]
    /\ vkx_swap_chain' = [vkx_swap_chain EXCEPT !.image_views = NULL, !.images = NULL]
    /\ rc_log' = Append(rc_log, "destroy_views")
    /\ pc' = "rc_cleanup_sc"
    /\ UNCHANGED <<running, current_frame, framebuffer_resized, suboptimal_swapchain_count,
                   acquire_result, present_result, in_flight_fences, gpu_pending,
                   transition_pending, command_buffers, swap_chain_alive, rc_site,
                   entry_frame, entry_count, calls, events, run, disturbed,
                   create_info, swap_chain_support, create_depth_image, want_depth,
                   oneshot_live>>
    /\ UNCHANGED <<coreVars, findVars>>
    /\ UNCHANGED <<teardownVars, syncVars, image_state, dataVars, pickVars, chooseVars, slotVars, transitionVars>>

\* vkx_cleanup_swap_chain(), second part: every image view is destroyed, both
\* arrays are freed and set to NULL, images_count is set to 0.
CleanupImageViews ==
    /\ pc = "rc_cleanup_views"
    /\ driver' = [driver EXCEPT !.image_views = @ - vkx_swap_chain.images_count]
    /\ vkx_swap_chain' = [vkx_swap_chain EXCEPT
                            !.image_views = NULL, !.images = NULL, !.images_count = 0]
    /\ rc_log' = Append(rc_log, "destroy_views")
    /\ pc' = "rc_cleanup_sc"
    /\ UNCHANGED <<running, current_frame, framebuffer_resized, suboptimal_swapchain_count,
                   acquire_result, present_result, in_flight_fences, gpu_pending,
                   transition_pending, command_buffers, swap_chain_alive, rc_site,
                   entry_frame, entry_count, calls, events, run, disturbed,
                   create_info, swap_chain_support, create_depth_image, want_depth,
                   oneshot_live>>
    /\ UNCHANGED <<coreVars, findVars>>
    /\ UNCHANGED <<teardownVars, syncVars, image_state, dataVars, pickVars, chooseVars, slotVars, transitionVars>>

\* vkx_cleanup_swap_chain(), last part: vkDestroySwapchainKHR.
CleanupSwapChain ==
    /\ pc = "rc_cleanup_sc"
    /\ swap_chain_alive' = FALSE
    /\ driver' = [driver EXCEPT !.swapchains = @ - 1]
    /\ image_state' = << >>
    /\ rc_log' = Append(rc_log, "destroy_swapchain")
    /\ pc' = "rc_create"
    /\ UNCHANGED <<running, current_frame, framebuffer_resized, suboptimal_swapchain_count,
                   acquire_result, present_result, in_flight_fences, gpu_pending,
                   transition_pending, command_buffers, rc_site, entry_frame, entry_count, calls,
                   events, run, disturbed,
                   vkx_swap_chain, create_info, swap_chain_support,
                   create_depth_image, want_depth, oneshot_live>>
    /\ UNCHANGED <<coreVars, findVars>>
    /\ UNCHANGED <<teardownVars, syncVars, dataVars, pickVars, chooseVars, slotVars, transitionVars>>

\* Faulty variant: the transitions are recorded into the running frame's buffer.
TransitionCommandBuffer_Current == current_frame

\* The per-frame command buffer vkx_create_swap_chain() uses for the layout
\* transitions: vkx_instance.command_buffers[0].
TransitionCommandBuffer == 0

\* Faulty variant: a non-zero extent already stored in vkx_swap_chain is kept.
CreateSwapChain_KeepExtent(support, created, extra) ==
    /\ pc = "rc_create"
    /\ swap_chain_support' = support
    /\ create_depth_image' = vkx_swap_chain.has_depth_image
    /\ rc_log' = Append(rc_log, "create")
    /\ IF support.formats = << >> \/ support.present_modes = << >>
       THEN /\ pc' = "exited"
            /\ UNCHANGED <<vkx_swap_chain, create_info, swap_chain_alive, command_buffers,
                           calls, transition_pending, run, driver, image_state>>
       ELSE /\ create_info' = [SwapchainCreateInfo(support) EXCEPT
                                 !.imageExtent = vkx_swap_chain.extent]
            /\ IF created
               THEN /\ vkx_swap_chain' = [vkx_swap_chain EXCEPT
                         !.images_count = create_info'.minImageCount + extra,
                         !.images = SwapChainImages(create_info'.minImageCount + extra)]
                    /\ swap_chain_alive' = TRUE
                    /\ driver' = [driver EXCEPT !.swapchains = @ + 1]
                    /\ image_state' = RetrievedImages(create_info'.minImageCount + extra)
                    /\ command_buffers' = [command_buffers EXCEPT
                                             ![TransitionCommandBuffer] = "transition"]
                    /\ calls' = Bump(Bump(Bump(calls, "cb_reset"), "cb_record"), "submit")
                    /\ transition_pending' = TRUE
                    /\ run' = 0
                    /\ pc' = "rc_qwait"
               ELSE /\ pc' = "exited"
                    /\ UNCHANGED <<vkx_swap_chain, swap_chain_alive, command_buffers, calls,
                                   transition_pending, run, driver, image_state>>
    /\ UNCHANGED <<running, current_frame, framebuffer_resized, suboptimal_swapchain_count,
                   acquire_result, present_result, in_flight_fences, gpu_pending, rc_site,
                   entry_frame, entry_count, events, disturbed,
                   want_depth, oneshot_live>>
    /\ UNCHANGED <<coreVars, findVars>>
    /\ UNCHANGED <<teardownVars, syncVars, dataVars, pickVars, chooseVars, slotVars, transitionVars>>

\* vkx_create_swap_chain(create_depth_image) up to the submission of the layout
\* transitions.  The process exits when the surface reports no format or no
\* present mode, or when vkCreateSwapchainKHR fails (created = FALSE).  Otherwise
\* the extent is stored, the swapchain is created, the driver hands back its
\* images (extra of them beyond the requested count), command_buffers[0] is
\* reset, the barriers are recorded into it and it is submitted without a fence.
CreateSwapChain(support, created, extra) ==
    /\ pc = "rc_create"
    /\ swap_chain_support' = support
    /\ create_depth_image' = vkx_swap_chain.has_depth_image
    /\ rc_log' = Append(rc_log, "create")
    /\ IF support.formats = << >> \/ support.present_modes = << >>
       THEN /\ pc' = "exited"
            /\ UNCHANGED <<vkx_swap_chain, create_info, swap_chain_alive, command_buffers,
                           calls, transition_pending, run, driver, image_state>>
       ELSE /\ create_info' = SwapchainCreateInfo(support)
            /\ IF created
               THEN /\ vkx_swap_chain' = [vkx_swap_chain EXCEPT
                         !.extent = create_info'.imageExtent,
                         !.images_count = create_info'.minImageCount + extra,
                         !.images = SwapChainImages(create_info'.minImageCount + extra)]
                    /\ swap_chain_alive' = TRUE
                    /\ driver' = [driver EXCEPT !.swapchains = @ + 1]
                    /\ image_state' = RetrievedImages(create_info'.minImageCount + extra)
                    /\ command_buffers' = [command_buffers EXCEPT
                                             ![TransitionCommandBuffer] = "transition"]
                    /\ calls' = Bump(Bump(Bump(calls, "cb_reset"), "cb_record"), "submit")
                    /\ transition_pending' = TRUE
                    /\ run' = 0
                    /\ pc' = "rc_qwait"
               ELSE /\ vkx_swap_chain' = [vkx_swap_chain EXCEPT
                                            !.extent = create_info'.imageExtent]
                    /\ pc' = "exited"
                    /\ UNCHANGED <<swap_chain_alive, command_buffers, calls,
                                   transition_pending, run, driver, image_state>>
    /\ UNCHANGED <<running, current_frame, framebuffer_resized, suboptimal_swapchain_count,
                   acquire_result, present_result, in_flight_fences, gpu_pending, rc_site,
                   entry_frame, entry_count, events, disturbed,
                   want_depth, oneshot_live>>
    /\ UNCHANGED <<coreVars, findVars>>
    /\ UNCHANGED <<teardownVars, syncVars, dataVars, pickVars, chooseVars, slotVars, transitionVars>>

\* Where vkx_recreate_swap_chain() returns to: the early return after a stale
\* acquire, or the frame-counter increment after the present.
ReturnSite == IF rc_site = "acquire" THEN "returned" ELSE "advance"

\* Faulty variant: the skipped frame also runs the frame-counter increment.
CreateWaitQueueIdle_AlwaysAdvance(views_ok) ==
    /\ pc = "rc_qwait"
    /\ IF views_ok
       THEN /\ DeviceIdle
            /\ vkx_swap_chain' = [vkx_swap_chain EXCEPT
                                    !.image_views = ImageViews(vkx_swap_chain.images),
                                    !.image_format = create_info.imageFormat,
                                    !.has_depth_image = create_depth_image]
            /\ driver' = [driver EXCEPT !.image_views = @ + vkx_swap_chain.images_count]
            /\ pc' = IF create_depth_image THEN "rc_depth" ELSE "advance"
       ELSE /\ pc' = "exited"
            /\ UNCHANGED <<vkx_swap_chain, driver>>
    /\ UNCHANGED <<running, current_frame, framebuffer_resized, suboptimal_swapchain_count,
                   acquire_result, present_result, in_flight_fences, gpu_pending,
                   transition_pending, command_buffers, swap_chain_alive, rc_site,
                   entry_frame, entry_count, calls, events, run, disturbed,
                   create_info, swap_chain_support, create_depth_image, want_depth, rc_log,
                   oneshot_live>>
    /\ UNCHANGED <<coreVars, findVars>>
    /\ UNCHANGED <<teardownVars, syncVars, image_state, dataVars, pickVars, chooseVars, slotVars, transitionVars>>

\* vkx_create_swap_chain() after the submission: one image view per image (the
\* process exits when vkx_create_image_view fails), vkQueueWaitIdle, image_format
\* and has_depth_image stored.  Without a depth image the creation is over and
\* vkx_recreate_swap_chain() returns to its call site.
CreateWaitQueueIdle(views_ok) ==
    /\ pc = "rc_qwait"
    /\ IF views_ok
       THEN /\ DeviceIdle
            /\ vkx_swap_chain' = [vkx_swap_chain EXCEPT
                                    !.image_views = ImageViews(vkx_swap_chain.images),
                                    !.image_format = create_info.imageFormat,
                                    !.has_depth_image = create_depth_image]
            /\ driver' = [driver EXCEPT !.image_views = @ + vkx_swap_chain.images_count]
            /\ pc' = IF create_depth_image THEN "rc_depth" ELSE ReturnSite
       ELSE /\ pc' = "exited"
            /\ UNCHANGED <<vkx_swap_chain, driver>>
    /\ UNCHANGED <<running, current_frame, framebuffer_resized, suboptimal_swapchain_count,
                   acquire_result, present_result, in_flight_fences, gpu_pending,
                   transition_pending, command_buffers, swap_chain_alive, rc_site,
                   entry_frame, entry_count, calls, events, run, disturbed,
                   create_info, swap_chain_support, create_depth_image, want_depth, rc_log,
                   oneshot_live>>
    /\ UNCHANGED <<coreVars, findVars>>
    /\ UNCHANGED <<teardownVars, syncVars, image_state, dataVars, pickVars, chooseVars, slotVars, transitionVars>>

\* What the driver calls of the depth-image creation can do: all succeed,
\* vkCreateImage fails, vkAllocateMemory fails, vkCreateImageView fails,
\* vkAllocateCommandBuffers fails.
DepthResults == {"ok", "image", "memory", "view", "command_buffer"}

\* vkx_create_swap_chain(TRUE), the depth resources: vkx_create_image sized to the
\* extent, vkx_create_image_view, then vkx_transition_image_layout_tmp_buffer
\* allocates a one-shot command buffer from the command pool, records the
\* transition and submits it.  The result of vkAllocateCommandBuffers is not
\* read: when it fails the calls that follow are handed no command buffer, and
\* the process either crashes or goes on with nothing submitted.
CreateDepthImage(res, crash) ==
    /\ pc = "rc_depth"
    /\ CASE res = "image" ->
              /\ pc' = "exited"
              /\ UNCHANGED <<vkx_swap_chain, driver, oneshot_live, transition_pending>>
         [] res = "view" ->
              /\ vkx_swap_chain' = [vkx_swap_chain EXCEPT
                                      !.depth_image = DepthImage(vkx_swap_chain.extent, TRUE)]
              /\ driver' = [driver EXCEPT !.depth_images = @ + 1]
              /\ pc' = "exited"
              /\ UNCHANGED <<oneshot_live, transition_pending>>
         [] OTHER ->
              /\ vkx_swap_chain' = [vkx_swap_chain EXCEPT !.depth_image =
                    [DepthImage(vkx_swap_chain.extent, res # "memory")
                       EXCEPT !.view = Handle("view")]]
              /\ driver' = [driver EXCEPT !.depth_images = @ + 1]
              /\ IF res = "command_buffer"
                 THEN /\ pc' = IF crash THEN "exited" ELSE "rc_depth_wait"
                      /\ UNCHANGED <<oneshot_live, transition_pending>>
                 ELSE /\ oneshot_live' = TRUE
                      /\ transition_pending' = TRUE
                      /\ pc' = "rc_depth_wait"
    /\ UNCHANGED <<running, current_frame, framebuffer_resized, suboptimal_swapchain_count,
                   acquire_result, present_result, in_flight_fences, gpu_pending,
                   command_buffers, swap_chain_alive, rc_site,
                   entry_frame, entry_count, calls, events, run, disturbed,
                   create_info, swap_chain_support, create_depth_image, want_depth, rc_log>>
    /\ UNCHANGED <<coreVars, findVars>>
    /\ UNCHANGED <<teardownVars, syncVars, image_state, dataVars, pickVars, chooseVars, slotVars, transitionVars>>

\* vkx_end_single_time_commands(): vkQueueWaitIdle, then the one-shot command
\* buffer is freed; vkx_recreate_swap_chain() returns to its call site.
DepthWaitQueueIdle ==
    /\ pc = "rc_depth_wait"
    /\ DeviceIdle
    /\ oneshot_live' = FALSE
    /\ pc' = ReturnSite
    /\ UNCHANGED <<running, current_frame, framebuffer_resized, suboptimal_swapchain_count,
                   acquire_result, present_result, in_flight_fences, gpu_pending,
                   transition_pending, command_buffers, swap_chain_alive, rc_site,
                   entry_frame, entry_count, calls, events, run, disturbed,
                   vkx_swap_chain, driver, create_info, swap_chain_support,
                   create_depth_image, want_depth, rc_log>>
    /\ UNCHANGED <<coreVars, findVars>>
    /\ UNCHANGED <<teardownVars, syncVars, image_state, dataVars, pickVars, chooseVars, slotVars, transitionVars>>

----------------------------------------------------------------------------
\* The GPU

\* The submission of slot i finishes: its wait on the image-acquired semaphore
\* has unsignaled that, its render-finished semaphore and its fence are signaled.
GpuCompleteFrame(i) ==
    /\ gpu_pending[i]
    /\ image_available_semaphores' =
          [image_available_semaphores EXCEPT ![i] = "unsignaled"]
    /\ render_finished_semaphores' =
          [render_finished_semaphores EXCEPT ![i] = "signaled"]
    /\ gpu_pending' = [gpu_pending EXCEPT ![i] = FALSE]
    /\ in_flight_fences' = [in_flight_fences EXCEPT ![i] = TRUE]
    /\ UNCHANGED <<pc, running, current_frame, framebuffer_resized,
                   suboptimal_swapchain_count, acquire_result, present_result,
                   transition_pending, command_buffers, swap_chain_alive, rc_site,
                   entry_frame, entry_count, calls, events, run, disturbed,
                   swapVars>>
    /\ UNCHANGED <<coreVars, findVars>>
    /\ UNCHANGED <<teardownVars, syncVars, image_state, dataVars, pickVars, chooseVars, transitionVars>>
    /\ UNCHANGED <<used, present_waits, color_format, offscreen_images, barriers>>

\* The wait a present queued on slot i's render-finished semaphore executes:
\* the semaphore is unsignaled again.  No fence and no return value tells the
\* program when.
PresentWaitExecutes(i) ==
    /\ present_waits[i]
    /\ render_finished_semaphores[i] = "signaled"
    /\ present_waits' = [present_waits EXCEPT ![i] = FALSE]
    /\ render_finished_semaphores' = [render_finished_semaphores EXCEPT ![i] = "unsignaled"]
    /\ UNCHANGED <<frameVars, swapVars>>
    /\ UNCHANGED <<coreVars, findVars>>
    /\ UNCHANGED <<teardownVars, syncVars, image_state, dataVars, pickVars, chooseVars, transitionVars>>
    /\ UNCHANGED <<used, image_available_semaphores, color_format, offscreen_images, barriers>>

\* The layout-transition submission finishes; it signals no fence.
GpuCompleteTransition ==
    /\ transition_pending
    /\ transition_pending' = FALSE
    /\ image_state' = IF oneshot_live
                      THEN image_state
                      ELSE ApplyBarriers(image_state, TransitionBarriers(vkx_swap_chain.images_count))
    /\ UNCHANGED <<pc, running, current_frame, framebuffer_resized,
                   suboptimal_swapchain_count, acquire_result, present_result,
                   in_flight_fences, gpu_pending, command_buffers, swap_chain_alive,
                   rc_site, entry_frame, entry_count, calls, events, run, disturbed,
                   swapVars>>
    /\ UNCHANGED <<coreVars, findVars>>
    /\ UNCHANGED <<teardownVars, syncVars, dataVars, pickVars, chooseVars, slotVars, transitionVars>>

----------------------------------------------------------------------------
\* main(): shutdown

\* Faulty variant: cleanup_vulkan() is called without waiting for the device.
ShutdownWaitIdle_NoWait ==
    /\ pc = "shutdown"
    /\ pc' = "cleanup"
    /\ UNCHANGED <<running, current_frame, framebuffer_resized, suboptimal_swapchain_count,
                   acquire_result, present_result, in_flight_fences, gpu_pending,
                   transition_pending, command_buffers, swap_chain_alive, rc_site,
                   entry_frame, entry_count, calls, events, run, disturbed,
                   swapVars>>
    /\ UNCHANGED <<coreVars, findVars>>
    /\ UNCHANGED <<teardownVars, syncVars, image_state, dataVars, pickVars, chooseVars, slotVars, transitionVars>>

\* vkDeviceWaitIdle(device) after the loop.
ShutdownWaitIdle ==
    /\ pc = "shutdown"
    /\ DeviceIdle
    /\ pc' = "cleanup"
    /\ UNCHANGED <<running, current_frame, framebuffer_resized, suboptimal_swapchain_count,
                   acquire_result, present_result, in_flight_fences, gpu_pending,
                   transition_pending, command_buffers, swap_chain_alive, rc_site,
                   entry_frame, entry_count, calls, events, run, disturbed,
                   swapVars>>
    /\ UNCHANGED <<coreVars, findVars>>
    /\ UNCHANGED <<teardownVars, syncVars, image_state, dataVars, pickVars, chooseVars, slotVars, transitionVars>>

\* cleanup_vulkan(): every object is destroyed, the swapchain's by
\* vkx_cleanup_swap_chain().
CleanupVulkan ==
    /\ pc = "cleanup"
    /\ swap_chain_alive' = FALSE
    /\ vkx_swap_chain' = [vkx_swap_chain EXCEPT
                            !.depth_image = IF vkx_swap_chain.has_depth_image
                                            THEN CleanupImage(@) ELSE @,
                            !.image_views = NULL, !.images = NULL, !.images_count = 0]
    /\ image_state' = << >>
    /\ LET after == DestroyAll([live |-> live_objects, dead |-> destroyed_dead],
                               CleanupOrder)
       IN  /\ live_objects' = after.live
           /\ destroyed_dead' = after.dead
    /\ destroy_log' =
          (IF vkx_swap_chain.has_depth_image
           THEN <<Created("swapchain_depth_image", 0)>> ELSE << >>)
          \o <<Created("swapchain_image_views", 0), Created("swapchain", 0)>>
          \o CleanupOrder
    /\ driver' = [driver EXCEPT
                    !.swapchains = @ - 1,
                    !.image_views = @ - vkx_swap_chain.images_count,
                    !.depth_images = IF /\ vkx_swap_chain.has_depth_image
                                        /\ vkx_swap_chain.depth_image.image # NULL
                                     THEN @ - 1 ELSE @]
    /\ pc' = "done"
    /\ UNCHANGED <<running, current_frame, framebuffer_resized, suboptimal_swapchain_count,
                   acquire_result, present_result, in_flight_fences, gpu_pending,
                   transition_pending, command_buffers, rc_site, entry_frame, entry_count, calls,
                   events, run, disturbed,
                   create_info, swap_chain_support, create_depth_image, want_depth, rc_log,
                   oneshot_live>>
    /\ UNCHANGED <<coreVars, findVars>>
    /\ UNCHANGED <<syncVars, dataVars, pickVars, chooseVars, slotVars, transitionVars>>

----------------------------------------------------------------------------
Next ==
    \/ \E e \in Events : PollEvent(e)
    \/ EnterDrawFrame
    \/ LoopCheck
    \/ WaitForFences
    \/ \E r \in VkResults : AcquireNextImage(r)
    \/ WriteUniformBuffer
    \/ ResetFences
    \/ ResetCommandBuffer
    \/ \E ok \in BOOLEAN, image_index \in 1 .. vkx_swap_chain.images_count :
          RecordCommandBuffer(ok, image_index)
    \/ \E ok \in BOOLEAN : QueueSubmit(ok)
    \/ \E r \in VkResults : QueuePresent(r)
    \/ HandlePresentResult
    \/ AdvanceFrame
    \/ RecreateWaitIdle
    \/ CleanupDepthImage
    \/ CleanupImageViews
    \/ CleanupSwapChain
    \/ \E support \in FrameSurfaces, created \in BOOLEAN, extra \in 0 .. MaxExtraImages :
          CreateSwapChain(support, created, extra)
    \/ \E views_ok \in BOOLEAN : CreateWaitQueueIdle(views_ok)
    \/ \E res \in DepthResults, crash \in BOOLEAN : CreateDepthImage(res, crash)
    \/ DepthWaitQueueIdle
    \/ \E i \in Slots : GpuCompleteFrame(i)
    \/ GpuCompleteTransition
    \/ ShutdownWaitIdle
    \/ CleanupVulkan

\* The frame loop with the presentation engine left out: a wait a present
\* queued stays queued.
Spec == Init /\ [][Next]_vars

\* The frame loop on a surface whose report does not change, created without a
\* depth image.
SyncInit ==
    /\ Init
    /\ ~want_depth
    /\ swap_chain_support.currentExtent.width # SENTINEL_WIDTH
    /\ vkx_swap_chain.images_count = create_info.minImageCount

\* A step of the thread that runs draw_frame(), from the call to the return.
DrawFrameStep ==
    \/ WaitForFences
    \/ \E r \in VkResults : AcquireNextImage(r)
    \/ WriteUniformBuffer
    \/ ResetFences
    \/ ResetCommandBuffer
    \/ \E ok \in BOOLEAN, image_index \in 1 .. vkx_swap_chain.images_count :
          RecordCommandBuffer(ok, image_index)
    \/ \E ok \in BOOLEAN : QueueSubmit(ok)
    \/ \E r \in VkResults : QueuePresent(r)
    \/ HandlePresentResult
    \/ AdvanceFrame
    \/ RecreateWaitIdle
    \/ CleanupDepthImage
    \/ CleanupImageViews
    \/ CleanupSwapChain
    \/ \E created \in BOOLEAN : CreateSwapChain(swap_chain_support, created, 0)
    \/ \E views_ok \in BOOLEAN : CreateWaitQueueIdle(views_ok)

\* The frame loop while the surface keeps its report.
KeptSurfaceNext ==
    \/ \E e \in Events : PollEvent(e)
    \/ EnterDrawFrame
    \/ LoopCheck
    \/ DrawFrameStep
    \/ \E i \in Slots : GpuCompleteFrame(i)
    \/ GpuCompleteTransition
    \/ ShutdownWaitIdle
    \/ CleanupVulkan

SyncNext ==
    \/ KeptSurfaceNext
    \/ \E i \in Slots : PresentWaitExecutes(i)

\* The frame loop and the presentation engine.
SyncSpec == SyncInit /\ [][SyncNext]_vars

\* The frame loop with a thread that keeps running, driver calls that return,
\* and a GPU that finishes every submission it was handed.
LiveSpec ==
    /\ SyncInit
    /\ [][KeptSurfaceNext]_vars
    /\ WF_vars(DrawFrameStep)
    /\ \A i \in Slots : WF_vars(GpuCompleteFrame(i))
    /\ WF_vars(GpuCompleteTransition)

----------------------------------------------------------------------------
\* The resource functions of the core, called one after the other as
\* init_vulkan() and cleanup_vulkan() call them.  A driver call that creates or
\* allocates may fail; vkMapMemory, vkQueueSubmit and vkQueueWaitIdle, whose
\* results the functions do not read, are taken to succeed.

\* The caller is between two calls.
CoreIdle == core_pc \in {"idle", "up_returned", "tex_returned"}

\* The usage_flags main.c passes to vkx_create_and_populate_buffer.
UsageFlags == {{"VERTEX_BUFFER"}, {"INDEX_BUFFER"}}

\* vkx_create_and_populate_buffer(vertices, buffer_size, usage_flags) is
\* entered with a block of n bytes, of which the first size are to be uploaded.
BeginUpload(n, size) ==
    /\ CoreIdle
    /\ buffer = NullBuffer
    /\ Len(objects) + 4 <= MaxObjects
    /\ vertices' = Block(n)
    /\ buffer_size' = size
    /\ core_pc' = "up_staging"
    /\ core_log' = << >>
    /\ cleanups' = [cleanups EXCEPT !.buffer = 0]
    /\ UNCHANGED <<staging_buffer, buffer, image, objects, pending, oneshot, failed>>
    /\ UNCHANGED <<frameVars, swapVars, findVars>>
    /\ UNCHANGED <<teardownVars, syncVars, image_state, pickVars, chooseVars, slotVars, transitionVars>>

\* vkx_create_texture_image(filename) is entered: the process exits when
\* stbi_load fails; else the pixels are the block to upload, all image_size
\* bytes of it.
BeginTexture(loaded) ==
    /\ CoreIdle
    /\ image = NullImage
    /\ Len(objects) + 5 <= MaxObjects
    /\ core_pc' = IF loaded THEN "tex_staging" ELSE "exited"
    /\ vertices' = IF loaded THEN Block(1) ELSE vertices
    /\ buffer_size' = IF loaded THEN 1 ELSE buffer_size
    /\ core_log' = << >>
    /\ cleanups' = [cleanups EXCEPT !.image = 0]
    /\ UNCHANGED <<staging_buffer, buffer, image, objects, pending, oneshot, failed>>
    /\ UNCHANGED <<frameVars, swapVars, findVars>>
    /\ UNCHANGED <<teardownVars, syncVars, image_state, pickVars, chooseVars, slotVars, transitionVars>>

\* The staging buffer of either function: vkx_create_buffer(size,
\* TRANSFER_SRC, HOST_VISIBLE | HOST_COHERENT).
CreateStagingBuffer(res, type_bits) ==
    /\ core_pc \in {"up_staging", "tex_staging"}
    /\ IF CreateBufferExits(res, type_bits, VK_MEMORY_PROPERTY_HOST_VISIBLE_BIT
                                             + VK_MEMORY_PROPERTY_HOST_COHERENT_BIT)
       THEN /\ core_pc' = "exited"
            /\ UNCHANGED <<staging_buffer, objects, core_log>>
       ELSE /\ staging_buffer' = CreateBuffer(objects)
            /\ objects' = objects \o
                  <<Object("buffer", {"TRANSFER_SRC"},
                           VK_MEMORY_PROPERTY_HOST_VISIBLE_BIT
                              + VK_MEMORY_PROPERTY_HOST_COHERENT_BIT, "none", buffer_size),
                    Object("memory", {},
                           VK_MEMORY_PROPERTY_HOST_VISIBLE_BIT
                              + VK_MEMORY_PROPERTY_HOST_COHERENT_BIT, "none", 0)>>
            /\ core_log' = Append(core_log, "create_staging")
            /\ core_pc' = NextPc[core_pc]
    /\ UNCHANGED <<buffer, image, pending, oneshot, failed, cleanups>>
    /\ UNCHANGED <<frameVars, swapVars, findVars>>
    /\ UNCHANGED <<teardownVars, syncVars, image_state, dataVars, pickVars, chooseVars, slotVars, transitionVars>>

\* vkMapMemory, memcpy of the caller's data, vkUnmapMemory.
MapAndCopy ==
    /\ core_pc \in {"up_map", "tex_map"}
    /\ objects' = [objects EXCEPT ![staging_buffer.buffer.id].data =
                                      Memcpy(vertices, buffer_size)]
    /\ core_log' = Append(core_log, "map_copy_unmap")
    /\ core_pc' = NextPc[core_pc]
    /\ UNCHANGED <<staging_buffer, buffer, image, pending, oneshot, failed, cleanups>>
    /\ UNCHANGED <<frameVars, swapVars, findVars>>
    /\ UNCHANGED <<teardownVars, syncVars, image_state, dataVars, pickVars, chooseVars, slotVars, transitionVars>>

\* vkx_create_and_populate_buffer(): the destination,
\* vkx_create_buffer(size, TRANSFER_DST | usage_flags, DEVICE_LOCAL).
UploadCreateDest(res, type_bits, usage_flags) ==
    /\ core_pc = "up_dest"
    /\ IF CreateBufferExits(res, type_bits, VK_MEMORY_PROPERTY_DEVICE_LOCAL_BIT)
       THEN /\ core_pc' = "exited"
            /\ UNCHANGED <<buffer, objects, core_log>>
       ELSE /\ buffer' = CreateBuffer(objects)
            /\ objects' = objects \o
                  <<Object("buffer", {"TRANSFER_DST"} \cup usage_flags,
                           VK_MEMORY_PROPERTY_DEVICE_LOCAL_BIT, "none", buffer_size),
                    Object("memory", {}, VK_MEMORY_PROPERTY_DEVICE_LOCAL_BIT, "none", 0)>>
            /\ core_log' = Append(core_log, "create_destination")
            /\ core_pc' = NextPc[core_pc]
    /\ UNCHANGED <<staging_buffer, image, pending, oneshot, failed, cleanups>>
    /\ UNCHANGED <<frameVars, swapVars, findVars>>
    /\ UNCHANGED <<teardownVars, syncVars, image_state, dataVars, pickVars, chooseVars, slotVars, transitionVars>>

\* vkx_create_texture_image(): vkx_create_image(width, height, R8G8B8A8_SRGB,
\* TRANSFER_DST | SAMPLED, DEVICE_LOCAL).  The process exits when vkCreateImage
\* fails or no memory type suits; when vkAllocateMemory fails the image is
\* returned without memory.
TexCreateImage(res, type_bits) ==
    /\ core_pc = "tex_image"
    /\ IF \/ res = "object"
          \/ FindMemoryType(0, type_bits, VK_MEMORY_PROPERTY_DEVICE_LOCAL_BIT,
                            DeviceMemoryTypes) = NoMemoryType
       THEN /\ core_pc' = "exited"
            /\ UNCHANGED <<image, objects, core_log, failed>>
       ELSE /\ image' = CreateImage(ObjectHandle(Len(objects) + 1),
                                    ObjectHandle(Len(objects) + 2), res = "ok")
            /\ objects' = objects \o
                  <<[Object("image", {"TRANSFER_DST", "SAMPLED"},
                            VK_MEMORY_PROPERTY_DEVICE_LOCAL_BIT, "UNDEFINED", buffer_size)
                       EXCEPT !.bound = (res = "ok")]>> \o
                  (IF res = "ok"
                   THEN <<Object("memory", {}, VK_MEMORY_PROPERTY_DEVICE_LOCAL_BIT, "none", 0)>>
                   ELSE << >>)
            /\ failed' = IF res = "ok" THEN failed ELSE failed \cup {"image_memory"}
            /\ core_log' = Append(core_log, "create_image")
            /\ core_pc' = NextPc[core_pc]
    /\ UNCHANGED <<staging_buffer, buffer, pending, oneshot, cleanups>>
    /\ UNCHANGED <<frameVars, swapVars, findVars>>
    /\ UNCHANGED <<teardownVars, syncVars, image_state, dataVars, pickVars, chooseVars, slotVars, transitionVars>>

\* Where a one-shot command buffer is recorded and submitted, and what is
\* recorded there: vkx_copy_buffer, vkx_transition_image_layout_tmp_buffer,
\* vkx_copy_buffer_to_image.
OneShotSites == {"up_copy", "tex_to_dst", "tex_copy", "tex_to_read"}

Command(site) ==
    CASE site = "up_copy" ->
            [cmd |-> "copy_buffer", src |-> staging_buffer.buffer.id,
             dst |-> buffer.buffer.id, layout |-> "none", size |-> buffer_size]
      [] site = "tex_to_dst" ->
            [cmd |-> "transition", src |-> 0, dst |-> image.image.id,
             layout |-> "TRANSFER_DST_OPTIMAL", size |-> 0]
      [] site = "tex_copy" ->
            [cmd |-> "copy_buffer_to_image", src |-> staging_buffer.buffer.id,
             dst |-> image.image.id, layout |-> "none", size |-> buffer_size]
      [] site = "tex_to_read" ->
            [cmd |-> "transition", src |-> 0, dst |-> image.image.id,
             layout |-> "SHADER_READ_ONLY_OPTIMAL", size |-> 0]

SubmitStep(site) ==
    CASE site = "tex_to_dst" -> "submit_to_transfer_dst"
      [] site = "tex_to_read" -> "submit_to_shader_read"
      [] OTHER -> "submit_copy"

\* vkx_begin_single_time_commands(), the recording, and
\* vkx_end_single_time_commands() up to vkQueueSubmit.  The result of
\* vkAllocateCommandBuffers is not read: when it fails (allocated = FALSE) the
\* calls that follow are handed no command buffer, and the process either
\* crashes or goes on with nothing recorded and nothing submitted.  The process
\* exits when vkEndCommandBuffer fails (ended = FALSE).
OneShotSubmit(allocated, crash, ended) ==
    /\ core_pc \in OneShotSites
    /\ IF ~allocated
       THEN /\ failed' = failed \cup {"command_buffer"}
            /\ IF crash
               THEN /\ core_pc' = "exited"
                    /\ UNCHANGED <<core_log>>
               ELSE /\ core_pc' = NextPc[core_pc]
                    /\ core_log' = Append(core_log, SubmitStep(core_pc))
            /\ UNCHANGED <<pending, oneshot>>
       ELSE /\ IF ended
               THEN /\ pending' = Command(core_pc)
                    /\ oneshot' = "submitted"
                    /\ core_log' = Append(core_log, SubmitStep(core_pc))
                    /\ core_pc' = NextPc[core_pc]
               ELSE /\ oneshot' = "recording"
                    /\ core_pc' = "exited"
                    /\ UNCHANGED <<pending, core_log>>
            /\ UNCHANGED failed
    /\ UNCHANGED <<staging_buffer, buffer, image, objects, cleanups>>
    /\ UNCHANGED <<frameVars, swapVars, findVars>>
    /\ UNCHANGED <<teardownVars, syncVars, image_state, dataVars, pickVars, chooseVars, slotVars, transitionVars>>

\* vkx_end_single_time_commands(): vkQueueWaitIdle returns once the queue has
\* executed the submission; vkFreeCommandBuffers.
OneShotWait ==
    /\ core_pc \in {"up_copy_wait", "tex_to_dst_wait", "tex_copy_wait", "tex_to_read_wait"}
    /\ pending = NoCommand
    /\ oneshot' = "none"
    /\ core_log' = Append(core_log, "wait_idle")
    /\ core_pc' = NextPc[core_pc]
    /\ UNCHANGED <<staging_buffer, buffer, image, objects, pending, failed, cleanups>>
    /\ UNCHANGED <<frameVars, swapVars, findVars>>
    /\ UNCHANGED <<teardownVars, syncVars, image_state, dataVars, pickVars, chooseVars, slotVars, transitionVars>>

\* The queue executes the submission: a copy gives the destination the
\* copied bytes of the source, a transition gives the image its new layout.  On an image
\* that has no memory the command may have no effect (applied = FALSE).
GpuCompleteOneShot(applied) ==
    /\ pending # NoCommand
    /\ applied \/ ~objects[pending.dst].bound
    /\ objects' =
          IF ~applied
          THEN objects
          ELSE IF pending.cmd = "transition"
               THEN [objects EXCEPT ![pending.dst].layout = pending.layout]
               ELSE [objects EXCEPT ![pending.dst].data =
                                       CopyRegion(@, objects[pending.src].data, pending.size)]
    /\ pending' = NoCommand
    /\ UNCHANGED <<core_pc, staging_buffer, buffer, image, oneshot, core_log, failed,
                   cleanups>>
    /\ UNCHANGED <<frameVars, swapVars, findVars>>
    /\ UNCHANGED <<teardownVars, syncVars, image_state, dataVars, pickVars, chooseVars, slotVars, transitionVars>>

\* Faulty variant: the handles keep their values after the cleanup.
CleanupBuffer_KeepHandles(b) == b

\* vkx_cleanup_buffer(): both handles are set to VK_NULL_HANDLE.
CleanupBuffer(b) == NullBuffer

\* vkx_cleanup_buffer(): vkDestroyBuffer and vkFreeMemory.
CleanupBufferObjects(objs, b) == Destroy(Destroy(objs, b.buffer), b.memory)

\* vkx_cleanup_image(): vkDestroyImageView if the view is not null,
\* vkDestroyImage, vkFreeMemory.
CleanupImageObjects(objs, img) ==
    Destroy(Destroy(IF img.view # NULL THEN Destroy(objs, img.view) ELSE objs, img.image),
            img.memory)

\* vkx_cleanup_buffer(&staging_buffer) at the end of either function.
DestroyStaging ==
    /\ core_pc \in {"up_destroy", "tex_destroy"}
    /\ objects' = CleanupBufferObjects(objects, staging_buffer)
    /\ staging_buffer' = CleanupBuffer(staging_buffer)
    /\ core_log' = Append(core_log, "destroy_staging")
    /\ core_pc' = NextPc[core_pc]
    /\ UNCHANGED <<buffer, image, pending, oneshot, failed, cleanups>>
    /\ UNCHANGED <<frameVars, swapVars, findVars>>
    /\ UNCHANGED <<teardownVars, syncVars, image_state, dataVars, pickVars, chooseVars, slotVars, transitionVars>>

\* vkx_create_texture_image(): image.view = vkx_create_image_view(...); the
\* process exits when vkCreateImageView fails; the image is returned.
TexCreateView(ok) ==
    /\ core_pc = "tex_view"
    /\ IF ok
       THEN /\ image' = [image EXCEPT !.view = ObjectHandle(Len(objects) + 1)]
            /\ objects' = Append(objects, Object("view", {}, 0, "none", 0))
            /\ core_log' = Append(core_log, "create_view")
            /\ core_pc' = NextPc[core_pc]
       ELSE /\ core_pc' = "exited"
            /\ UNCHANGED <<image, objects, core_log>>
    /\ UNCHANGED <<staging_buffer, buffer, pending, oneshot, failed, cleanups>>
    /\ UNCHANGED <<frameVars, swapVars, findVars>>
    /\ UNCHANGED <<teardownVars, syncVars, image_state, dataVars, pickVars, chooseVars, slotVars, transitionVars>>

\* The caller cleans up the buffer it was returned: vkx_cleanup_buffer(&buffer).
CleanupBufferCall ==
    /\ CoreIdle
    /\ cleanups.buffer < MaxCleanups
    /\ objects' = CleanupBufferObjects(objects, buffer)
    /\ buffer' = CleanupBuffer(buffer)
    /\ cleanups' = [cleanups EXCEPT !.buffer = @ + 1]
    /\ UNCHANGED <<core_pc, staging_buffer, image, pending, oneshot, core_log, failed>>
    /\ UNCHANGED <<frameVars, swapVars, findVars>>
    /\ UNCHANGED <<teardownVars, syncVars, image_state, dataVars, pickVars, chooseVars, slotVars, transitionVars>>

\* The caller cleans up the texture it was returned: vkx_cleanup_image(&image).
CleanupImageCall ==
    /\ CoreIdle
    /\ cleanups.image < MaxCleanups
    /\ objects' = CleanupImageObjects(objects, image)
    /\ image' = CleanupImage(image)
    /\ cleanups' = [cleanups EXCEPT !.image = @ + 1]
    /\ UNCHANGED <<core_pc, staging_buffer, buffer, pending, oneshot, core_log, failed>>
    /\ UNCHANGED <<frameVars, swapVars, findVars>>
    /\ UNCHANGED <<teardownVars, syncVars, image_state, dataVars, pickVars, chooseVars, slotVars, transitionVars>>

CoreNext ==
    \/ \E n \in 1 .. MaxBlockLen, size \in 1 .. MaxBlockLen : size <= n /\ BeginUpload(n, size)
    \/ \E loaded \in BOOLEAN : BeginTexture(loaded)
    \/ \E res \in CreateResults, type_bits \in TypeBits : CreateStagingBuffer(res, type_bits)
    \/ MapAndCopy
    \/ \E res \in CreateResults, type_bits \in TypeBits, usage_flags \in UsageFlags :
          UploadCreateDest(res, type_bits, usage_flags)
    \/ \E res \in CreateResults, type_bits \in TypeBits : TexCreateImage(res, type_bits)
    \/ \E allocated \in BOOLEAN, crash \in BOOLEAN, ended \in BOOLEAN :
          OneShotSubmit(allocated, crash, ended)
    \/ OneShotWait
    \/ \E applied \in BOOLEAN : GpuCompleteOneShot(applied)
    \/ DestroyStaging
    \/ \E ok \in BOOLEAN : TexCreateView(ok)
    \/ CleanupBufferCall
    \/ CleanupImageCall

\* The resource functions on their own, the frame loop not yet started.
CoreSpec == Init /\ [][CoreNext]_vars

----------------------------------------------------------------------------
\* vkx_find_memory_type on its own

\* The property flags a memory type can have and a caller can ask for.
PropertyFlags == 0 .. (VK_MEMORY_PROPERTY_DEVICE_LOCAL_BIT + VK_MEMORY_PROPERTY_HOST_VISIBLE_BIT
                        + VK_MEMORY_PROPERTY_HOST_COHERENT_BIT)

\* The call has not been made.
NotCalled == [called |-> FALSE]

\* Every memory-type table of MaxMemoryTypes types, every mask over them and
\* every requested set of properties; the frame loop rests in one initial state.
FindInit ==
    /\ FrameInit
    /\ ~want_depth
    /\ swap_chain_support.currentExtent.width # SENTINEL_WIDTH
    /\ vkx_swap_chain.images_count = create_info.minImageCount
    /\ CoreInit
    /\ find_in \in [type_filter : 0 .. (2 ^ MaxMemoryTypes - 1),
                    properties : PropertyFlags,
                    memory_types : [1 .. MaxMemoryTypes -> PropertyFlags]]
    /\ find_out = NotCalled
    /\ PickIdle
    /\ ChooseIdle
    /\ TransitionIdle

\* vkx_find_memory_type(type_filter, properties) is called.
FindCall ==
    /\ find_out = NotCalled
    /\ find_out' = FindMemoryType(0, find_in.type_filter, find_in.properties,
                                  find_in.memory_types)
    /\ UNCHANGED <<find_in, frameVars, swapVars, coreVars>>
    /\ UNCHANGED <<teardownVars, syncVars, image_state, dataVars, pickVars, chooseVars, slotVars, transitionVars>>

FindNext == FindCall

FindSpec == FindInit /\ [][FindNext]_vars

----------------------------------------------------------------------------
\* vkx_pick_physical_device on its own

MaxDevices == 2

\* static const char* device_extensions[VKX_NUM_DEVICE_EXTENSIONS]
device_extensions == <<"VK_KHR_swapchain", "VK_EXT_descriptor_indexing">>

\* What vkGetPhysicalDeviceQueueFamilyProperties and
\* vkGetPhysicalDeviceSurfaceSupportKHR report of one queue family.
QueueFamily(graphics, present_support) ==
    [graphics |-> graphics, present_support |-> present_support]

\* The devices an enumeration can hold: no queue family, a graphics-only or a
\* present-only family, the two in separate families or in one; both required
\* extensions or one of them missing; sampler anisotropy or not; a format or a
\* present mode missing or neither.
PhysicalDevices ==
    [queue_families : {<< >>,
                       <<QueueFamily(TRUE, FALSE)>>,
                       <<QueueFamily(FALSE, TRUE)>>,
                       <<QueueFamily(TRUE, FALSE), QueueFamily(FALSE, TRUE)>>,
                       <<QueueFamily(FALSE, FALSE), QueueFamily(TRUE, TRUE)>>},
     extensions : {{"VK_KHR_swapchain", "VK_EXT_descriptor_indexing", "VK_KHR_maintenance1"},
                   {"VK_KHR_swapchain", "VK_KHR_maintenance1"},
                   {"VK_EXT_descriptor_indexing"}},
     samplerAnisotropy : BOOLEAN,
     support : {[formats_count |-> 1, present_modes_count |-> 1],
                [formats_count |-> 0, present_modes_count |-> 1],
                [formats_count |-> 1, present_modes_count |-> 0]}]

\* VkxQueueFamilyIndices indices = {0}
NoIndices ==
    [graphics_family |-> 0, has_graphics_family |-> FALSE,
     present_family |-> 0, has_present_family |-> FALSE]

\* The loop of vkx_find_queue_families from family i on (families counted from
\* 0 in the result).
RECURSIVE ScanQueueFamilies(_, _, _)
ScanQueueFamilies(queue_families, i, indices) ==
    IF i > Len(queue_families)
    THEN indices
    ELSE LET g == IF queue_families[i].graphics
                  THEN [indices EXCEPT !.graphics_family = i - 1,
                                       !.has_graphics_family = TRUE]
                  ELSE indices
             p == IF queue_families[i].present_support
                  THEN [g EXCEPT !.present_family = i - 1, !.has_present_family = TRUE]
                  ELSE g
         IN  IF p.has_graphics_family /\ p.has_present_family
             THEN p
             ELSE ScanQueueFamilies(queue_families, i + 1, p)

FindQueueFamilies(device) == ScanQueueFamilies(device.queue_families, 1, NoIndices)

\* The check that every entry of device_extensions is among the device's own.
RequiredExtensionsSupported(device) ==
    \A j \in 1 .. Len(device_extensions) : device_extensions[j] \in device.extensions

\* swap_chain_adequate: queried only when a present family was found.
SwapChainAdequate(device, indices) ==
    IF indices.has_present_family
    THEN device.support.formats_count > 0 /\ device.support.present_modes_count > 0
    ELSE FALSE

\* Faulty variant: the samplerAnisotropy feature is not looked at.
DeviceSuitable_AnyFeatures(device) ==
    LET indices == FindQueueFamilies(device)
    IN  IF ~RequiredExtensionsSupported(device)
        THEN FALSE
        ELSE /\ indices.has_graphics_family
             /\ indices.has_present_family
             /\ SwapChainAdequate(device, indices)

\* One round of the selection loop: does it end in physical_device = devices[i]?
DeviceSuitable(device) ==
    LET indices == FindQueueFamilies(device)
    IN  IF ~RequiredExtensionsSupported(device)
        THEN FALSE
        ELSE IF ~device.samplerAnisotropy
        THEN FALSE
        ELSE /\ indices.has_graphics_family
             /\ indices.has_present_family
             /\ SwapChainAdequate(device, indices)

\* The selection loop from device i on; a handle is the device's place in the
\* enumeration, VK_NULL_HANDLE is 0.
RECURSIVE SelectFrom(_, _)
SelectFrom(devices, i) ==
    IF i > Len(devices)
    THEN 0
    ELSE IF DeviceSuitable(devices[i])
    THEN i
    ELSE SelectFrom(devices, i + 1)

\* vkx_pick_physical_device() and the test vkx_init makes of its result.
PickPhysicalDevice(devices) ==
    IF Len(devices) = 0
    THEN [called |-> TRUE, exited |-> TRUE, physical_device |-> 0]
    ELSE LET physical_device == SelectFrom(devices, 1)
         IN  [called |-> TRUE, exited |-> (physical_device = 0),
              physical_device |-> physical_device]

\* Every enumeration of up to MaxDevices devices; the frame loop rests in one
\* initial state.
PickInit ==
    /\ FrameInit
    /\ ~want_depth
    /\ swap_chain_support.currentExtent.width # SENTINEL_WIDTH
    /\ vkx_swap_chain.images_count = create_info.minImageCount
    /\ CoreInit
    /\ FindIdle
    /\ pick_in \in UNION {[1 .. n -> PhysicalDevices] : n \in 0 .. MaxDevices}
    /\ pick_out = NotCalled
    /\ ChooseIdle
    /\ TransitionIdle

\* vkx_init() reaches its device selection.
PickCall ==
    /\ pick_out = NotCalled
    /\ pick_out' = PickPhysicalDevice(pick_in)
    /\ UNCHANGED <<pick_in, frameVars, swapVars, coreVars, findVars>>
    /\ UNCHANGED <<teardownVars, syncVars, image_state, dataVars, chooseVars, slotVars, transitionVars>>

PickNext == PickCall

PickSpec == PickInit /\ [][PickNext]_vars

----------------------------------------------------------------------------
\* What vkx_create_swap_chain chooses, on its own

MaxFormats == 3
MaxPresentModes == 3
MaxImageCount == 3
MaxSide == 3

\* Surface formats a driver can list: the preferred pair, the preferred format
\* in another color space, and two other formats.
SurfaceFormats ==
    {SurfaceFormat("B8G8R8A8_SRGB", "SRGB_NONLINEAR"),
     SurfaceFormat("B8G8R8A8_SRGB", "EXTENDED_SRGB_LINEAR"),
     SurfaceFormat("R8G8B8A8_UNORM", "SRGB_NONLINEAR"),
     SurfaceFormat("B8G8R8A8_UNORM", "SRGB_NONLINEAR")}

PresentModes == {"IMMEDIATE", "MAILBOX", "FIFO", "FIFO_RELAXED"}

\* Every list of up to n elements of S.
ListsUpTo(S, n) == UNION {[1 .. k -> S] : k \in 0 .. n}

\* One report of vkx_query_swap_chain_support() and SDL_GetWindowSize().
Report(current, lo, hi, min_count, max_count, formats, present_modes, window) ==
    [currentExtent |-> current, minImageExtent |-> lo, maxImageExtent |-> hi,
     minImageCount |-> min_count, maxImageCount |-> max_count,
     formats |-> formats, present_modes |-> present_modes, window |-> window]

\* Every format list with every present-mode list, under fixed capabilities.
ListReports ==
    {Report(Extent(2, 2), Extent(1, 1), Extent(MaxSide, MaxSide), 2, 0, f, m, Extent(2, 2)) :
        f \in ListsUpTo(SurfaceFormats, MaxFormats),
        m \in ListsUpTo(PresentModes, MaxPresentModes)}

\* Every image-count range a surface can report: maxImageCount is 0 or no less
\* than minImageCount.
CountReports ==
    {Report(Extent(2, 2), Extent(1, 1), Extent(MaxSide, MaxSide), c[1], c[2],
            <<SurfaceFormat("R8G8B8A8_UNORM", "SRGB_NONLINEAR")>>, <<"FIFO">>, Extent(2, 2)) :
        c \in {d \in (1 .. MaxImageCount) \X (0 .. MaxImageCount) : d[2] = 0 \/ d[2] >= d[1]}}

\* The sides an extent range allows.
Sides == 1 .. MaxSide

ExtentRanges ==
    {r \in [lo : Sides \X Sides, hi : Sides \X Sides] :
        r.lo[1] <= r.hi[1] /\ r.lo[2] <= r.hi[2]}

\* Every extent range with every window size, the surface either leaving the
\* extent to the application or fixing it to the smallest or the largest the
\* range allows.
ExtentReports ==
    {Report(current[r], Extent(r.lo[1], r.lo[2]), Extent(r.hi[1], r.hi[2]), 2, 0,
            <<SurfaceFormat("R8G8B8A8_UNORM", "SRGB_NONLINEAR")>>, <<"FIFO">>,
            Extent(w[1], w[2])) :
        r \in ExtentRanges,
        current \in {[q \in ExtentRanges |-> Extent(SENTINEL_WIDTH, SENTINEL_WIDTH)],
                     [q \in ExtentRanges |-> Extent(q.lo[1], q.hi[2])],
                     [q \in ExtentRanges |-> Extent(q.hi[1], q.lo[2])]},
        w \in (0 .. MaxSide + 1) \X (0 .. MaxSide + 1)}

\* vkx_create_swap_chain() up to the filled-in create_info: the exits on an
\* empty list, the extent stored in vkx_swap_chain.extent and the create info.
SwapChainChoices(support) ==
    IF Len(support.formats) = 0
    THEN [called |-> TRUE, exited |-> TRUE]
    ELSE IF Len(support.present_modes) = 0
    THEN [called |-> TRUE, exited |-> TRUE]
    ELSE [called |-> TRUE, exited |-> FALSE,
          extent |-> ChooseSwapExtent(support.window, support),
          create_info |-> SwapchainCreateInfo(support)]

ChooseInit ==
    /\ FrameInit
    /\ ~want_depth
    /\ swap_chain_support.currentExtent.width # SENTINEL_WIDTH
    /\ vkx_swap_chain.images_count = create_info.minImageCount
    /\ CoreInit
    /\ FindIdle
    /\ PickIdle
    /\ TransitionIdle
    /\ \/ choose_in \in ListReports
       \/ choose_in \in CountReports
       \/ choose_in \in ExtentReports
    /\ choose_out = NotCalled

\* vkx_create_swap_chain() is called and makes its choices.
ChooseCall ==
    /\ choose_out = NotCalled
    /\ choose_out' = SwapChainChoices(choose_in)
    /\ UNCHANGED <<choose_in, frameVars, swapVars, coreVars, findVars>>
    /\ UNCHANGED <<teardownVars, syncVars, image_state, dataVars, pickVars, slotVars,
                   transitionVars>>

ChooseNext == ChooseCall

ChooseSpec == ChooseInit /\ [][ChooseNext]_vars

----------------------------------------------------------------------------
\* vkx_transition_image_layout(): one call, on every pair of layouts

\* Image layouts: the six the function names and two it does not.
Layouts ==
    {"UNDEFINED", "GENERAL", "TRANSFER_SRC_OPTIMAL", "TRANSFER_DST_OPTIMAL",
     "SHADER_READ_ONLY_OPTIMAL", "DEPTH_STENCIL_ATTACHMENT_OPTIMAL",
     "PRESENT_SRC_KHR", "COLOR_ATTACHMENT_OPTIMAL"}

\* The formats a swapchain of FrameSurfaces can have.
ColorFormats == {ChooseSurfaceFormat(support.formats).format : support \in UsableSurfaces}

\* vkx_find_depth_format(): the candidates, one of which it returns.
DepthFormats == {"D32_SFLOAT", "D32_SFLOAT_S8_UINT", "D24_UNORM_S8_UINT"}

\* The transitions the program itself asks for: the two of
\* vkx_create_texture_image(), the setup of the offscreen and depth images in
\* init_vulkan(), the depth image of vkx_create_swap_chain(), and the four of
\* record_command_buffer().
ProgramTransitions ==
    {Transition(ImageRef("texture", 0), "R8G8B8A8_SRGB", "UNDEFINED", "TRANSFER_DST_OPTIMAL"),
     Transition(ImageRef("texture", 0), "R8G8B8A8_SRGB", "TRANSFER_DST_OPTIMAL",
                "SHADER_READ_ONLY_OPTIMAL")}
    \cup {Transition(ImageRef("offscreen", i), f, "UNDEFINED", SetupLayout) :
             i \in Slots, f \in ColorFormats}
    \cup {Transition(ImageRef("depth", i), f, "UNDEFINED", "DEPTH_STENCIL_ATTACHMENT_OPTIMAL") :
             i \in Slots, f \in DepthFormats}
    \cup {Transition(ImageRef("swap_chain_depth", 0), f, "UNDEFINED",
                     "DEPTH_STENCIL_ATTACHMENT_OPTIMAL") : f \in DepthFormats}
    \cup UNION {{FrameTransitions(image_index, i, f)[k] : k \in 1 .. 4} :
                  image_index \in 1 .. 2, i \in Slots, f \in ColorFormats}

\* Every call: any format on any pair of layouts, and the program's own calls.
TransitionInit ==
    /\ FrameInit
    /\ ~want_depth
    /\ swap_chain_support.currentExtent.width # SENTINEL_WIDTH
    /\ vkx_swap_chain.images_count = create_info.minImageCount
    /\ offscreen_images = [i \in Slots |-> [layout |-> SetupLayout]]
    /\ CoreInit
    /\ FindIdle
    /\ PickIdle
    /\ ChooseIdle
    /\ \/ transition_in \in ProgramTransitions
       \/ \E f \in ColorFormats \cup DepthFormats, old_layout \in Layouts,
             new_layout \in Layouts :
             transition_in = Transition(ImageRef("image", 0), f, old_layout, new_layout)
    /\ transition_out = NotCalled

\* The call is made.
TransitionCall ==
    /\ transition_out = NotCalled
    /\ transition_out' =
          [called |-> TRUE,
           result |-> TransitionImageLayout(transition_in.image, transition_in.format,
                                            transition_in.old_layout, transition_in.new_layout)]
    /\ UNCHANGED <<transition_in, frameVars, swapVars, coreVars, findVars>>
    /\ UNCHANGED <<teardownVars, syncVars, image_state, dataVars, pickVars, chooseVars,
                   slotVars>>

TransitionNext == TransitionCall

TransitionSpec == TransitionInit /\ [][TransitionNext]_vars

----------------------------------------------------------------------------
TypeOK ==
    /\ pc \in {"poll", "wait", "acquire", "memcpy", "reset_fence", "reset_cb", "record",
               "submit", "present", "post", "advance", "returned", "rc_idle",
               "rc_cleanup", "rc_cleanup_views", "rc_cleanup_sc", "rc_create", "rc_qwait",
               "rc_depth", "rc_depth_wait", "shutdown", "cleanup", "done", "exited"}
    /\ current_frame \in Slots
    /\ suboptimal_swapchain_count \in 0 .. MaxSuboptimalCount
    /\ run \in 0 .. MaxSuboptimalCount

----------------------------------------------------------------------------
\* The acquire of the draw_frame call that just returned was stale, so the
\* frame was skipped.
SkippedFrame == pc = "returned" /\ acquire_result = VK_ERROR_OUT_OF_DATE_KHR

\* C1 (as stated): the frame counter advances by exactly one modulo
\* VKX_FRAMES_IN_FLIGHT on every draw_frame call that returns, the call skipped
\* after a stale acquire included.
C1_AdvancesOnEveryCall ==
    pc = "returned" => current_frame = (entry_frame + 1) % VKX_FRAMES_IN_FLIGHT

\* C1 (amended): a draw_frame call that returns after its present has advanced
\* the frame counter by exactly one modulo VKX_FRAMES_IN_FLIGHT; a call skipped
\* after a stale acquire returns with the frame counter unchanged.
C1_AdvancesUnlessSkipped ==
    pc = "returned" =>
        current_frame = IF acquire_result = VK_ERROR_OUT_OF_DATE_KHR
                        THEN entry_frame
                        ELSE (entry_frame + 1) % VKX_FRAMES_IN_FLIGHT

C1_Witness == SkippedFrame /\ entry_frame = 1 /\ current_frame = 1

\* C2 (as stated): a draw_frame call whose acquire was stale makes no fence
\* reset, no command-buffer reset or recording, no uniform-buffer write, no
\* queue submission and no present, and calls vkx_recreate_swap_chain once.
C2_SkipMakesNoCallButRecreate ==
    SkippedFrame => calls = [NoCalls EXCEPT !["recreate"] = 1]

\* C2 (amended): a draw_frame call whose acquire was stale makes no fence reset,
\* no uniform-buffer write and no present, and calls vkx_recreate_swap_chain
\* once; the only command-buffer reset, recording and queue submission of the
\* call are the ones of that recreation, which puts the layout transitions in
\* command buffer 0 and submits them without a fence, so that the slot's fence
\* is still signaled and no frame work is pending when the call returns.
C2_SkipOnlyRecreates ==
    SkippedFrame =>
        /\ calls = [NoCalls EXCEPT !["recreate"] = 1, !["cb_reset"] = 1,
                                   !["cb_record"] = 1, !["submit"] = 1]
        /\ command_buffers[0] = "transition"
        /\ in_flight_fences[entry_frame]
        /\ \A i \in Slots : ~gpu_pending[i]

C2_Witness == SkippedFrame /\ entry_frame = 1 /\ command_buffers[1] = "frame"

\* C3: whenever the CPU is about to write slot current_frame's uniform buffer,
\* reset its fence, reset or record its command buffer or submit it, and
\* whenever swapchain creation is about to reset and record command buffer 0,
\* no GPU work of that slot is pending (neither the slot's frame nor, for
\* command buffer 0, the layout transitions): the slot's fence was waited for,
\* or the device or queue was waited idle, after the slot's last submission.
C3_NoTouchWhilePending ==
    /\ pc \in {"memcpy", "reset_fence", "reset_cb", "record", "submit"}
          => ~gpu_pending[current_frame]
    /\ (pc \in {"reset_cb", "record", "submit"} /\ current_frame = 0)
          => ~transition_pending
    /\ pc = "rc_create" => (~gpu_pending[0] /\ ~transition_pending)

C3_Witness ==
    /\ pc = "reset_cb"
    /\ command_buffers[current_frame] = "frame"
    /\ gpu_pending[1 - current_frame]

\* C4: at the start of every draw_frame call the current slot's fence is
\* signaled or a submission that will signal it is pending, also when the
\* previous call was skipped after a stale acquire.
C4_FenceSignaledOrSubmitted ==
    pc = "wait" => (in_flight_fences[current_frame] \/ gpu_pending[current_frame])

C4_Witness ==
    /\ pc = "wait"
    /\ acquire_result = VK_ERROR_OUT_OF_DATE_KHR
    /\ command_buffers[current_frame] = "frame"
    /\ in_flight_fences[current_frame]

\* vkx_recreate_swap_chain has just returned to draw_frame.
RecreateReturned == pc \in {"advance", "returned"} /\ calls["recreate"] >= 1

\* C5: after every present exactly one outcome is chosen, in this precedence:
\* resize flag set -> recreate and clear the flag; else counter at the threshold
\* -> recreate and reset the counter; else present was stale -> recreate; else a
\* result other than success or suboptimal -> the process terminates; else the
\* frame just ends.  No draw_frame call recreates more than once.
C5_PresentPrecedence ==
    /\ [](calls["recreate"] <= 1)
    /\ [][(pc = "post" /\ pc' # "post") =>
            IF framebuffer_resized
            THEN /\ pc' = "rc_idle"
                 /\ ~framebuffer_resized'
                 /\ suboptimal_swapchain_count' = suboptimal_swapchain_count
                 /\ calls'["recreate"] = calls["recreate"] + 1
            ELSE IF suboptimal_swapchain_count >= SUBOPTIMAL_SWAPCHAIN_THRESHOLD
            THEN /\ pc' = "rc_idle"
                 /\ suboptimal_swapchain_count' = 0
                 /\ calls'["recreate"] = calls["recreate"] + 1
            ELSE IF present_result = VK_ERROR_OUT_OF_DATE_KHR
            THEN /\ pc' = "rc_idle"
                 /\ suboptimal_swapchain_count' = suboptimal_swapchain_count
                 /\ calls'["recreate"] = calls["recreate"] + 1
            ELSE IF present_result \notin {VK_SUCCESS, VK_SUBOPTIMAL_KHR}
            THEN pc' = "exited" /\ calls' = calls
            ELSE pc' = "advance" /\ calls' = calls
       ]_vars

C5_Witness ==
    /\ pc = "rc_idle"
    /\ rc_site = "resize"
    /\ present_result = VK_ERROR_OUT_OF_DATE_KHR
    /\ ~framebuffer_resized

\* C6 (as stated): the suboptimal counter is zero immediately after any
\* swapchain recreation and immediately after any present that returned success.
C6_ZeroAfterAnyRecreation ==
    /\ RecreateReturned => suboptimal_swapchain_count = 0
    /\ (pc = "post" /\ present_result = VK_SUCCESS) => suboptimal_swapchain_count = 0

\* C6 (amended): the suboptimal counter is zero immediately after a recreation
\* triggered by the debounce threshold or by a stale present, and immediately
\* after any present that did not return suboptimal; a recreation triggered by
\* the resize flag or by a stale acquire leaves the counter at the value it had,
\* which is nonzero when the resized frame's present was suboptimal.
C6_ZeroAfterDebounceOrStalePresent ==
    /\ (RecreateReturned /\ rc_site \in {"debounce", "present_stale"})
          => suboptimal_swapchain_count = 0
    /\ (pc = "post" /\ present_result # VK_SUBOPTIMAL_KHR)
          => suboptimal_swapchain_count = 0
    /\ (RecreateReturned /\ rc_site = "acquire")
          => suboptimal_swapchain_count = entry_count
    /\ (RecreateReturned /\ rc_site = "resize")
          => suboptimal_swapchain_count =
                IF present_result = VK_SUBOPTIMAL_KHR THEN entry_count + 1 ELSE 0

C6_Witness ==
    /\ RecreateReturned
    /\ rc_site = "resize"
    /\ suboptimal_swapchain_count > 0

\* C7 (as stated): every triggering event (a resize notification, a stale
\* acquire or present, a run of suboptimal presents at the threshold) causes
\* exactly one call of vkx_recreate_swap_chain: a draw_frame call that returns
\* has recreated as many times as it saw triggers.
C7_OneRecreationPerEvent ==
    pc = "returned" => calls["recreate"] = events

\* C7 (amended): a draw_frame call that returns has called
\* vkx_recreate_swap_chain exactly once if it saw at least one trigger (a stale
\* acquire, or at its present a set resize flag, a counter at the threshold or a
\* stale result) and not at all otherwise; triggers that coincide in one frame
\* share a single recreation.
C7_OneRecreationPerTriggeredFrame ==
    pc = "returned" => calls["recreate"] = IF events >= 1 THEN 1 ELSE 0

C7_Witness == pc = "returned" /\ events = 2 /\ calls["recreate"] = 1

\* C8 (as stated): the suboptimal counter is incremented by a suboptimal
\* present, reset to zero by a present that returned success, and otherwise
\* changed only by the debounce recreation, which resets it.
C8_ResetOnlyBySuccess ==
    /\ present_result = "none" => suboptimal_swapchain_count = entry_count
    /\ present_result # "none" =>
          suboptimal_swapchain_count =
             IF rc_site = "debounce" THEN 0
             ELSE IF present_result = VK_SUBOPTIMAL_KHR THEN entry_count + 1
             ELSE IF present_result = VK_SUCCESS THEN 0
             ELSE entry_count

\* C8 (amended): the suboptimal counter is incremented by one by a suboptimal
\* present and reset to zero by every other present result, success, stale
\* surface and hard errors alike; nothing else changes it except the debounce
\* recreation, which resets it.
C8_ResetByEveryOtherResult ==
    /\ present_result = "none" => suboptimal_swapchain_count = entry_count
    /\ present_result # "none" =>
          suboptimal_swapchain_count =
             IF rc_site = "debounce" THEN 0
             ELSE IF present_result = VK_SUBOPTIMAL_KHR THEN entry_count + 1
             ELSE 0

C8_Witness ==
    /\ pc = "post"
    /\ present_result = VK_ERROR_OUT_OF_DATE_KHR
    /\ entry_count > 0
    /\ suboptimal_swapchain_count = 0

\* C9: as long as no resize notification and no stale result has occurred, a
\* draw_frame call recreates the swapchain exactly when its present made the
\* number of consecutive suboptimal presents (counted from the last successful
\* present or the last swapchain creation) reach the threshold: a shorter run,
\* or one interrupted by a successful present, never recreates.
C9_DebounceOnlyAtThreshold ==
    ~disturbed =>
        /\ pc = "rc_idle" => run = SUBOPTIMAL_SWAPCHAIN_THRESHOLD
        /\ (pc = "advance" /\ calls["recreate"] = 0) => run < SUBOPTIMAL_SWAPCHAIN_THRESHOLD

C9_Witness ==
    /\ ~disturbed
    /\ pc = "rc_idle"
    /\ rc_site = "debounce"
    /\ run = SUBOPTIMAL_SWAPCHAIN_THRESHOLD

\* C10: a stale acquire skips the frame and recreates (the process can end only
\* inside that recreation, on a creation failure); success and suboptimal
\* both go on to write, record, submit and present in the same call; every other
\* acquire result terminates the process before any fence reset, recording or
\* submission.
C10_AcquireClassification ==
    /\ (acquire_result = VK_ERROR_OUT_OF_DATE_KHR /\ rc_site = "acquire")
          => /\ pc \notin {"memcpy", "reset_fence", "reset_cb", "record", "submit",
                          "present", "post", "advance"}
             /\ pc = "exited" => Len(rc_log) > 0
             /\ calls["recreate"] = 1
             /\ calls["present"] = 0 /\ calls["ubo_write"] = 0 /\ calls["fence_reset"] = 0
    /\ (acquire_result \in {VK_SUCCESS, VK_SUBOPTIMAL_KHR} /\ pc = "returned")
          => /\ calls["ubo_write"] = 1 /\ calls["fence_reset"] = 1
             /\ calls["cb_record"] = 1 + calls["recreate"]
             /\ calls["submit"] = 1 + calls["recreate"]
             /\ calls["present"] = 1
    /\ (acquire_result \in {VK_SUCCESS, VK_SUBOPTIMAL_KHR} /\ pc = "exited")
          => calls["ubo_write"] = 1
    /\ acquire_result \notin {VK_SUCCESS, VK_SUBOPTIMAL_KHR, VK_ERROR_OUT_OF_DATE_KHR, "none"}
          => (pc = "exited" /\ calls = NoCalls)

C10_Witness ==
    /\ pc = "returned"
    /\ acquire_result = VK_SUBOPTIMAL_KHR
    /\ calls["present"] = 1
    /\ calls["recreate"] = 0

----------------------------------------------------------------------------
\* The swapchain manager

\* The steps of one vkx_recreate_swap_chain() call, in the order of the source.
RecreateOrder ==
    <<"wait_idle">> \o (IF want_depth THEN <<"destroy_depth">> ELSE << >>)
                    \o <<"destroy_views", "destroy_swapchain", "create">>

\* Inside vkx_cleanup_swap_chain() / vkx_create_swap_chain().
InCleanup == pc \in {"rc_cleanup", "rc_cleanup_views", "rc_cleanup_sc"}

InCreate == pc \in {"rc_create", "rc_qwait", "rc_depth", "rc_depth_wait"}

\* A vkx_recreate_swap_chain() call has run to its end.
RecreateDone == pc \in {"advance", "returned"} /\ rc_log # << >>

\* C11: every recreation waits for the device to be idle, then destroys the depth
\* image, the image views and the swapchain in that order, and only then runs
\* the creation; no submission is executing while the old objects are destroyed,
\* and none of them is left when the creation starts.
C11_IdleThenDestroyThenCreate ==
    /\ Len(rc_log) <= Len(RecreateOrder)
    /\ rc_log = SubSeq(RecreateOrder, 1, Len(rc_log))
    /\ InCleanup => DeviceIdle
    /\ pc = "rc_create" => /\ DeviceIdle
                           /\ ~swap_chain_alive
                           /\ driver.image_views = 0
                           /\ driver.depth_images = 0
                           /\ rc_log = SubSeq(RecreateOrder, 1, Len(RecreateOrder) - 1)
    /\ (pc \in {"rc_qwait", "rc_depth", "rc_depth_wait"} \/ RecreateDone)
          => rc_log = RecreateOrder

C11_Witness ==
    /\ pc = "advance"
    /\ rc_site = "debounce"
    /\ rc_log = <<"wait_idle", "destroy_depth", "destroy_views", "destroy_swapchain", "create">>

\* C12: outside a running creation or cleanup, has_depth_image is the argument
\* of the original creation call; with it set exactly one depth image exists
\* and it has the swapchain's extent, without it no depth image exists.
C12_DepthFollowsWantDepth ==
    /\ vkx_swap_chain.has_depth_image = want_depth
    /\ (~InCleanup /\ ~InCreate /\ pc \notin {"done", "exited"})
          => /\ driver.depth_images = IF want_depth THEN 1 ELSE 0
             /\ vkx_swap_chain.depth_image.image =
                   IF want_depth THEN [extent |-> vkx_swap_chain.extent] ELSE NULL

C12_Witness ==
    /\ RecreateDone
    /\ want_depth
    /\ swap_chain_support.currentExtent.width = SENTINEL_WIDTH
    /\ vkx_swap_chain.depth_image.image = [extent |-> Extent(10, 4)]
    /\ driver.depth_images = 1

\* What a creation must arrive at for each surface of FrameSurfaces, written
\* out by hand: the fixed-extent surface lists the preferred format and has no
\* image-count limit, the other leaves the extent to a 12x3 window, allows
\* 4x4 to 10x10 and at most two images.
C13_Expected ==
    IF swap_chain_support.currentExtent.width = SENTINEL_WIDTH
    THEN [extent |-> Extent(10, 4), format |-> "R8G8B8A8_UNORM", count |-> 2]
    ELSE [extent |-> Extent(8, 6), format |-> "B8G8R8A8_SRGB", count |-> 3]

\* C13: extent, image format and requested image count after a creation are
\* determined by what the surface and the window report to that creation alone,
\* whatever the swapchain was before; a recreation under an unchanged report
\* leaves all three as they were.
C13_RecreateIdempotent ==
    /\ [](RecreateDone =>
            /\ vkx_swap_chain.extent = C13_Expected.extent
            /\ vkx_swap_chain.image_format = C13_Expected.format
            /\ create_info.minImageCount = C13_Expected.count
            /\ vkx_swap_chain.images_count >= C13_Expected.count)
    /\ [][(pc = "rc_create" /\ pc' = "rc_qwait" /\ swap_chain_support' = swap_chain_support)
             => /\ vkx_swap_chain'.extent = vkx_swap_chain.extent
                /\ create_info' = create_info
                /\ create_info'.imageFormat = vkx_swap_chain.image_format]_vars

C13_Witness ==
    /\ RecreateDone
    /\ swap_chain_support.currentExtent.width = SENTINEL_WIDTH
    /\ vkx_swap_chain.extent = Extent(10, 4)
    /\ vkx_swap_chain.image_format = "R8G8B8A8_UNORM"
    /\ create_info.minImageCount = 2

\* C14: whenever no creation or cleanup is running, images and image_views both
\* hold images_count elements and view i was made of image i; once
\* vkx_cleanup_swap_chain() has freed them both are NULL and images_count is 0.
C14_ImagesAndViewsCorrespond ==
    /\ (~InCreate /\ pc \notin {"rc_cleanup_sc", "done", "exited"})
          => /\ vkx_swap_chain.images # NULL
             /\ vkx_swap_chain.image_views # NULL
             /\ Len(vkx_swap_chain.images.elems) = vkx_swap_chain.images_count
             /\ Len(vkx_swap_chain.image_views.elems) = vkx_swap_chain.images_count
             /\ \A i \in 1 .. vkx_swap_chain.images_count :
                   vkx_swap_chain.image_views.elems[i].image = vkx_swap_chain.images.elems[i]
             /\ driver.image_views = vkx_swap_chain.images_count
    /\ pc \in {"rc_cleanup_sc", "rc_create", "done"}
          => /\ vkx_swap_chain.images = NULL
             /\ vkx_swap_chain.image_views = NULL
             /\ vkx_swap_chain.images_count = 0
             /\ driver.image_views = 0

C14_Witness ==
    /\ pc = "done"
    /\ "create" \in {rc_log[i] : i \in 1 .. Len(rc_log)}
    /\ vkx_swap_chain.images = NULL
    /\ vkx_swap_chain.images_count = 0

----------------------------------------------------------------------------
\* The resource functions

\* C15 as stated: whenever a creation or allocation call of the core has failed
\* the process has ended, so nothing is bound, recorded or submitted with the
\* object that was not created.
C15_CreationFailureTerminates == failed # {} => core_pc = "exited"

\* The steps of vkx_create_and_populate_buffer, in the order of the source.
UploadOrder ==
    <<"create_staging", "map_copy_unmap", "create_destination", "submit_copy",
      "wait_idle", "destroy_staging">>

\* C16 as stated: the upload runs its steps in the order of UploadOrder, the
\* staging buffer is alive while the copy is executing, and when the function
\* has returned the destination, created with TRANSFER_DST, holds the caller's
\* data and the staging buffer is gone.
C16_UploadOrderedAndPopulated ==
    /\ core_pc \in {"up_staging", "up_map", "up_dest", "up_copy", "up_copy_wait",
                    "up_destroy", "up_returned"}
          => /\ Len(core_log) <= Len(UploadOrder)
             /\ core_log = SubSeq(UploadOrder, 1, Len(core_log))
    /\ pending.cmd = "copy_buffer" => objects[pending.src].live
    /\ (core_pc = "up_returned" /\ cleanups.buffer = 0)
          => /\ core_log = UploadOrder
             /\ staging_buffer = NullBuffer
             /\ "TRANSFER_DST" \in objects[buffer.buffer.id].usage
             /\ objects[buffer.buffer.id].data = SubSeq(vertices, 1, buffer_size)

\* The steps of vkx_create_texture_image, in the order of the source.
TextureOrder ==
    <<"create_staging", "map_copy_unmap", "create_image", "submit_to_transfer_dst",
      "wait_idle", "submit_copy", "wait_idle", "submit_to_shader_read", "wait_idle",
      "destroy_staging", "create_view">>

\* C17 as stated: a texture that has been returned went through the steps of
\* TextureOrder, is in SHADER_READ_ONLY_OPTIMAL layout, holds the pixels, has a
\* view, and its staging buffer is gone; after vkx_cleanup_image its three
\* handles are null.
C17_TextureReadyWhenReturned ==
    /\ (core_pc = "tex_returned" /\ cleanups.image = 0)
          => /\ core_log = TextureOrder
             /\ objects[image.image.id].layout = "SHADER_READ_ONLY_OPTIMAL"
             /\ objects[image.image.id].data = vertices
             /\ image.view # NULL
             /\ staging_buffer = NullBuffer
    /\ cleanups.image >= 1 => image = NullImage

\* C18: after a cleanup the handles of the VkxBuffer / VkxImage are all null; a
\* buffer and the memory created with it are alive or destroyed together, and
\* so are an image and its memory; however often the cleanup is repeated, no
\* driver object is destroyed more than once.
C18_CleanupNullsAndDestroysOnce ==
    /\ cleanups.buffer >= 1 => buffer = NullBuffer
    /\ cleanups.image >= 1 => image = NullImage
    /\ (buffer.buffer = NULL) <=> (buffer.memory = NULL)
    /\ (staging_buffer.buffer = NULL) <=> (staging_buffer.memory = NULL)
    /\ \A i \in 1 .. Len(objects) :
          /\ objects[i].destroys <= 1
          /\ objects[i].live <=> objects[i].destroys = 0
          /\ (objects[i].kind = "memory" /\ i > 1) => objects[i].live = objects[i - 1].live

C18_Witness ==
    /\ cleanups.buffer = 2
    /\ cleanups.image = 2
    /\ Len(objects) >= 9
    /\ \A i \in 1 .. Len(objects) : objects[i].destroys = 1

\* The memory type has the property with bit value bit.
HasProperty(flags, bit) == (flags \div bit) % 2 = 1

\* The types of the table a call may return: allowed by the mask and having
\* every requested property.
SuitableTypes ==
    {i \in 0 .. (Len(find_in.memory_types) - 1) :
        /\ (find_in.type_filter \div (2 ^ i)) % 2 = 1
        /\ \A bit \in {VK_MEMORY_PROPERTY_DEVICE_LOCAL_BIT,
                       VK_MEMORY_PROPERTY_HOST_VISIBLE_BIT,
                       VK_MEMORY_PROPERTY_HOST_COHERENT_BIT} :
              HasProperty(find_in.properties, bit)
                 => HasProperty(find_in.memory_types[i + 1], bit)}

\* C19: the call returns the lowest index allowed by the mask whose properties
\* include every requested one, and ends the process when there is none.
C19_LowestSuitableType ==
    find_out # NotCalled
       => IF SuitableTypes = {}
          THEN find_out = NoMemoryType
          ELSE /\ find_out # NoMemoryType
               /\ find_out.index \in SuitableTypes
               /\ \A i \in SuitableTypes : find_out.index <= i

C19_Witness ==
    /\ find_out = [index |-> 1]
    /\ find_in.type_filter = 7
    /\ find_in.properties = 6
    /\ find_in.memory_types[1] = 1
    /\ find_in.memory_types[2] = 7
    /\ find_in.memory_types[3] = 6

----------------------------------------------------------------------------
\* The command pool

\* C20 as stated: no per-frame command buffer ever holds anything a component
\* other than the per-frame path recorded, and no command buffer other than the
\* per-frame ones is allocated from the pool.
C20_PoolUsedByFramePathOnly ==
    /\ \A i \in Slots : command_buffers[i] # "transition"
    /\ ~oneshot_live

\* C20: the per-frame command buffers are the same N throughout; every one but
\* command buffer 0 is reset, recorded and submitted by the per-frame path only;
\* command buffer 0 is also used by vkx_create_swap_chain(), which starts with
\* the device idle; a one-shot command buffer is allocated from the pool only
\* for the depth-image transition of a creation and is freed before it ends.
C20_PoolSharedWithSwapChainManager ==
    /\ DOMAIN command_buffers = Slots
    /\ \A i \in Slots \ {0} : command_buffers[i] # "transition"
    /\ pc = "rc_create" => DeviceIdle
    /\ oneshot_live => pc = "rc_depth_wait"

C20_Witness ==
    /\ pc = "rc_depth_wait"
    /\ oneshot_live
    /\ command_buffers[0] = "transition"
    /\ command_buffers[1] # "initial"
    /\ current_frame = 1

----------------------------------------------------------------------------
\* Shutdown

\* Where cleanup_vulkan() destroyed object o.
DestroyedAt(o) == {i \in 1 .. Len(destroy_log) : destroy_log[i] = o}

\* The objects created from the device: all but the instance and the surface.
DeviceChildren ==
    {destroy_log[i] : i \in 1 .. Len(destroy_log)}
       \ {Created("instance", 0), Created("surface", 0), Created("device", 0)}

\* C21: no destroy call is ever handed an object already destroyed; a
\* recreation destroys the swapchain, the image views and the depth image it
\* supersedes before it creates the next ones; after cleanup_vulkan() nothing
\* that was created is alive, everything init_vulkan() created was destroyed
\* exactly once, every object created from the device before the device, and
\* the device and the surface before the instance.
C21_EverythingDestroyedOnce ==
    /\ ~destroyed_dead
    /\ driver.swapchains \in {0, 1}
    /\ driver.depth_images \in {0, 1}
    /\ driver.image_views >= 0
    /\ pc = "rc_create" => driver = [swapchains |-> 0, image_views |-> 0, depth_images |-> 0]
    /\ pc = "done"
          => /\ live_objects = {}
             /\ driver = [swapchains |-> 0, image_views |-> 0, depth_images |-> 0]
             /\ \A i \in 1 .. Len(InitOrder) : Cardinality(DestroyedAt(InitOrder[i])) = 1
             /\ \A o \in DeviceChildren :
                   \A i \in DestroyedAt(o), j \in DestroyedAt(Created("device", 0)) : i < j
             /\ \A i \in DestroyedAt(Created("device", 0)) \cup DestroyedAt(Created("surface", 0)),
                   j \in DestroyedAt(Created("instance", 0)) : i < j

C21_Witness ==
    /\ pc = "done"
    /\ want_depth
    /\ rc_log = RecreateOrder
    /\ live_objects = {}
    /\ Len(destroy_log) = Len(InitOrder) + 3

\* C22: when cleanup_vulkan() is entered, and from then on, the device is
\* idle: no frame, no layout transition and no one-shot submission is pending
\* while it destroys.
C22_IdleBeforeDestroy ==
    pc \in {"cleanup", "done"} => (DeviceIdle /\ ~oneshot_live)

C22_Witness ==
    /\ pc = "cleanup"
    /\ calls["submit"] = 1
    /\ command_buffers[0] = "frame"
    /\ command_buffers[1] = "frame"
    /\ \A i \in Slots : in_flight_fences[i]

----------------------------------------------------------------------------
\* Frame synchronisation

----------------------------------------------------------------------------
\* Layout of the presentable images

\* Every image of the swapchain is in present-source layout after one transition.
ImagesReady ==
    /\ Len(image_state) = vkx_swap_chain.images_count
    /\ \A i \in 1 .. Len(image_state) :
          /\ image_state[i].layout = "PRESENT_SRC_KHR"
          /\ image_state[i].transitions = 1

\* C24: outside the part of a creation that runs up to its queue-idle wait,
\* and so whenever a frame can acquire an image, every image the swapchain
\* handed back has been taken from undefined to present-source layout by one
\* transition that the queue has executed; no image is transitioned twice.
C24_ImagesTransitionedOnce ==
    /\ pc \notin {"rc_cleanup_sc", "rc_create", "rc_qwait", "done", "exited"} => ImagesReady
    /\ pc \in {"rc_depth", "rc_depth_wait"} \/ RecreateDone => ImagesReady
    /\ \A i \in 1 .. Len(image_state) : image_state[i].transitions <= 1

C24_Witness ==
    /\ pc = "acquire"
    /\ rc_log = RecreateOrder
    /\ vkx_swap_chain.images_count = 4
    /\ image_state[4] = [layout |-> "PRESENT_SRC_KHR", transitions |-> 1]

----------------------------------------------------------------------------
\* Device selection

\* Eligibility as the specification words it.
Eligible(device) ==
    /\ \E i \in 1 .. Len(device.queue_families) : device.queue_families[i].graphics
    /\ \E i \in 1 .. Len(device.queue_families) : device.queue_families[i].present_support
    /\ {"VK_KHR_swapchain", "VK_EXT_descriptor_indexing"} \subseteq device.extensions
    /\ device.samplerAnisotropy
    /\ device.support.formats_count >= 1
    /\ device.support.present_modes_count >= 1

\* C25: device selection returns the first device of the enumeration that has
\* a graphics queue family, a present queue family, every required extension,
\* sampler anisotropy and at least one surface format and one present mode;
\* when no device is eligible, or none is enumerated, the process exits.
C25_FirstEligibleDevice ==
    pick_out.called
       => LET eligible == {i \in 1 .. Len(pick_in) : Eligible(pick_in[i])}
          IN  IF eligible = {}
              THEN pick_out.exited
              ELSE /\ ~pick_out.exited
                   /\ pick_out.physical_device \in eligible
                   /\ \A i \in eligible : pick_out.physical_device <= i

C25_Witness ==
    /\ pick_out.called
    /\ ~pick_out.exited
    /\ pick_out.physical_device = 2
    /\ ~pick_in[1].samplerAnisotropy
    /\ Len(pick_in[2].queue_families) = 2
    /\ pick_in[2].queue_families[1].graphics
    /\ Eligible(pick_in[2])

----------------------------------------------------------------------------
\* The choices of a swapchain creation

\* The creation got past its two exits.
Chosen == choose_out.called /\ ~choose_out.exited

\* C26: the image count asked for is minImageCount + 1, lowered to
\* maxImageCount when that is not 0 and smaller; a maxImageCount of 0 is no
\* limit: (2, 0) gives 3 and (2, 2) gives 2.
C26_ImageCount ==
    Chosen
       => LET lo == choose_in.minImageCount
              hi == choose_in.maxImageCount
              n == choose_out.create_info.minImageCount
          IN  /\ (hi # 0 /\ hi < lo + 1) => n = hi
              /\ (hi = 0 \/ hi >= lo + 1) => n = lo + 1
              /\ (lo = 2 /\ hi = 0) => n = 3
              /\ (lo = 2 /\ hi = 2) => n = 2

C26_Witness ==
    /\ Chosen
    /\ choose_in.minImageCount = 2
    /\ choose_in.maxImageCount = 2
    /\ choose_out.create_info.minImageCount = 2

\* C27: the format chosen from a non-empty list is its first entry that is
\* B8G8R8A8_SRGB with SRGB_NONLINEAR when there is one, else the entry at index
\* 0; the creation exits exactly when the format list or the present-mode list
\* is empty.
C27_SurfaceFormat ==
    choose_out.called
       => LET formats == choose_in.formats
              wanted == [format |-> "B8G8R8A8_SRGB", colorSpace |-> "SRGB_NONLINEAR"]
              chosen == [format |-> choose_out.create_info.imageFormat,
                         colorSpace |-> choose_out.create_info.imageColorSpace]
          IN  /\ choose_out.exited <=> (formats = << >> \/ choose_in.present_modes = << >>)
              /\ ~choose_out.exited
                    => IF \E i \in 1 .. Len(formats) : formats[i] = wanted
                       THEN chosen = wanted
                       ELSE chosen = formats[1]

C27_Witness ==
    /\ Chosen
    /\ choose_in.formats = <<[format |-> "B8G8R8A8_SRGB", colorSpace |-> "EXTENDED_SRGB_LINEAR"],
                             [format |-> "R8G8B8A8_UNORM", colorSpace |-> "SRGB_NONLINEAR"],
                             [format |-> "B8G8R8A8_SRGB", colorSpace |-> "SRGB_NONLINEAR"]>>
    /\ choose_out.create_info.imageFormat = "B8G8R8A8_SRGB"
    /\ choose_out.create_info.imageColorSpace = "SRGB_NONLINEAR"

\* C28: the present mode chosen from a non-empty list is MAILBOX when MAILBOX
\* is anywhere in the list and FIFO otherwise, whether the list holds FIFO or not.
C28_PresentMode ==
    Chosen
       => LET modes == {choose_in.present_modes[i] : i \in 1 .. Len(choose_in.present_modes)}
          IN  /\ modes # {}
              /\ "MAILBOX" \in modes => choose_out.create_info.presentMode = "MAILBOX"
              /\ "MAILBOX" \notin modes => choose_out.create_info.presentMode = "FIFO"

C28_Witness ==
    /\ Chosen
    /\ choose_in.present_modes = <<"IMMEDIATE", "FIFO_RELAXED">>
    /\ choose_out.create_info.presentMode = "FIFO"

\* Where v ends when it is brought into lo .. hi.
Into(v, lo, hi) == CHOOSE x \in lo .. hi : \A y \in lo .. hi : (x - v) * (x - v) <= (y - v) * (y - v)

\* C29: the extent is the surface's current extent as reported, unless that is
\* the any-extent sentinel: then it is the window size with width and height
\* each brought into minImageExtent .. maxImageExtent; the extent stored in
\* vkx_swap_chain.extent is the one the creation asks the driver for.
C29_SwapExtent ==
    Chosen
       => /\ choose_out.create_info.imageExtent = choose_out.extent
          /\ IF choose_in.currentExtent = [width |-> SENTINEL_WIDTH, height |-> SENTINEL_WIDTH]
             THEN /\ choose_out.extent.width =
                        Into(choose_in.window.width, choose_in.minImageExtent.width,
                             choose_in.maxImageExtent.width)
                  /\ choose_out.extent.height =
                        Into(choose_in.window.height, choose_in.minImageExtent.height,
                             choose_in.maxImageExtent.height)
             ELSE choose_out.extent = choose_in.currentExtent

C29_Witness ==
    /\ Chosen
    /\ choose_in.currentExtent.width = SENTINEL_WIDTH
    /\ choose_in.window = [width |-> 4, height |-> 0]
    /\ choose_in.minImageExtent = [width |-> 1, height |-> 2]
    /\ choose_in.maxImageExtent = [width |-> 3, height |-> 3]
    /\ choose_out.extent = [width |-> 3, height |-> 2]

----------------------------------------------------------------------------
\* Staged upload: what the destination holds

\* C30 as stated: whenever vkx_create_and_populate_buffer(data, size, usage)
\* has returned, the destination buffer holds, byte for byte, the first size
\* bytes of data.
C30_UploadRoundTrip ==
    (core_pc = "up_returned" /\ buffer # NullBuffer)
       => /\ Len(objects[buffer.buffer.id].data) = buffer_size
          /\ \A i \in 1 .. buffer_size : objects[buffer.buffer.id].data[i] = vertices[i]

----------------------------------------------------------------------------
\* Frame slots

\* The per-slot arrays a draw_frame call that reaches the present has used.
SlotArrays ==
    {"in_flight_fences", "image_available_semaphores", "render_finished_semaphores",
     "command_buffers", "uniform_buffers_mapped", "descriptor_sets",
     "screen_descriptor_sets", "offscreen_images", "depth_images"}

\* The indices InitOrder creates objects of a kind at.
CreatedAt(kind) ==
    {i \in 0 .. Len(InitOrder) : \E k \in 1 .. Len(InitOrder) : InitOrder[k] = Created(kind, i)}

\* vkx_create_sync_objects creates one semaphore pair and one fence per slot.
SyncObjectsPerSlot ==
    \A kind \in {"image_available_semaphore", "render_finished_semaphore",
                  "in_flight_fence"} : CreatedAt(kind) = Slots

----------------------------------------------------------------------------
\* Semaphores

\* C32 as stated: when a submission signals a slot's render-finished semaphore,
\* no earlier signal of it is still waiting to be consumed by a present, and
\* once the fence wait at the start of a slot's frame has returned, no present
\* wait on the slot's render-finished semaphore is left queued.
C32_PresentWaitDoneBeforeResignal ==
    [][/\ \A i \in Slots :
             (gpu_pending[i] /\ ~gpu_pending'[i])
                => render_finished_semaphores[i] = "unsignaled"
       /\ (pc = "wait" /\ pc' = "acquire") => ~present_waits[current_frame]]_vars

----------------------------------------------------------------------------
\* Formats

\* C33 as stated: in every frame that records commands, the color format the
\* three pipelines and the offscreen images were created with is the current
\* vkx_swap_chain.image_format, whatever recreations came before.
C33_PipelineFormatIsSwapChainFormat ==
    pc \in {"record", "submit", "present", "post"}
       => color_format = vkx_swap_chain.image_format

----------------------------------------------------------------------------
\* Image layouts

\* C34 as stated: in every frame that records, every image the acquire can
\* have returned is in PRESENT_SRC_KHR and the slot's offscreen image in
\* SHADER_READ_ONLY_OPTIMAL when the recording starts, every barrier recorded
\* names as old layout the layout its image is in at that point, and both
\* images are back in those layouts when the recording ends.
C34_LayoutsConsistent ==
    /\ pc = "record"
          => /\ \A i \in 1 .. vkx_swap_chain.images_count :
                   image_state[i].layout = "PRESENT_SRC_KHR"
             /\ offscreen_images[current_frame].layout = "SHADER_READ_ONLY_OPTIMAL"
    /\ \A k \in 1 .. Len(barriers) : barriers[k].oldLayout = barriers[k].layout
    /\ pc \in {"submit", "present", "post"}
          => /\ Len(barriers) = 4
             /\ \A i \in 1 .. vkx_swap_chain.images_count :
                   image_state[i].layout = "PRESENT_SRC_KHR"
             /\ offscreen_images[current_frame].layout = "SHADER_READ_ONLY_OPTIMAL"

----------------------------------------------------------------------------
\* Termination of draw_frame

\* C35: with a GPU that finishes every submission and an acquire that
\* returns, every draw_frame call comes to its return (or ends the process):
\* no fence wait blocks forever, whether the slot has never been submitted on
\* or the calls before were skipped after a stale acquire and a recreation.
C35_DrawFrameTerminates == (pc = "wait") ~> (pc \in {"returned", "exited"})

C35_Witness ==
    /\ pc = "acquire"
    /\ acquire_result = VK_ERROR_OUT_OF_DATE_KHR
    /\ current_frame = 1
    /\ command_buffers[1] = "frame"
    /\ calls["recreate"] = 0

----------------------------------------------------------------------------
\* The image-acquired semaphore

\* C36: when draw_frame passes a slot's image-acquired semaphore to the
\* acquire, the semaphore is unsignaled and no submission that waits on it is
\* pending; a semaphore an acquire has signaled belongs to a call that is on
\* its way to the submission or to a submission still executing (or the
\* process has ended); after a stale acquire the semaphore is unsignaled.
\* Recreations are among the steps checked.
C36_AcquireSemaphoreFree ==
    /\ pc = "acquire"
          => /\ image_available_semaphores[current_frame] = "unsignaled"
             /\ ~gpu_pending[current_frame]
    /\ \A i \in Slots :
          image_available_semaphores[i] = "signaled"
             => \/ gpu_pending[i]
                \/ current_frame = i /\ pc \in {"memcpy", "reset_fence", "reset_cb",
                                                 "record", "submit"}
                \/ pc = "exited"
    /\ (rc_site = "acquire" /\ pc # "exited")
          => image_available_semaphores[entry_frame] = "unsignaled"

C36_Witness ==
    /\ pc = "acquire"
    /\ current_frame = 0
    /\ present_waits[0]
    /\ calls["recreate"] = 0
    /\ rc_log # << >>
    /\ image_available_semaphores[0] = "unsignaled"

----------------------------------------------------------------------------
\* Present errors

\* A present result that is neither success, suboptimal nor stale.
PresentError ==
    present_result \notin {"none", VK_SUCCESS, VK_SUBOPTIMAL_KHR, VK_ERROR_OUT_OF_DATE_KHR}

\* C37: the step after a present that returned an error ends the process only
\* with the resize flag clear and the suboptimal counter below the threshold;
\* with the resize flag set it clears the flag, drops the error and goes into
\* vkx_recreate_swap_chain(), after which the call returns like any other.
C37_PresentErrorFatalUnlessResized ==
    [][(pc = "post" /\ pc' # "post" /\ PresentError)
          => IF framebuffer_resized
             THEN /\ pc' = "rc_idle"
                  /\ rc_site' = "resize"
                  /\ ~framebuffer_resized'
             ELSE /\ pc' = "exited"
                  /\ suboptimal_swapchain_count < SUBOPTIMAL_SWAPCHAIN_THRESHOLD]_vars

C37_Witness ==
    /\ pc = "poll"
    /\ running
    /\ PresentError
    /\ rc_site = "resize"
    /\ calls["recreate"] = 1

----------------------------------------------------------------------------
\* The skipped frame

\* A step of a draw_frame call that a stale acquire skips: the fence wait and
\* the acquire of any call, and the recreation the stale acquire starts.
SkipStep ==
    \/ pc \in {"wait", "acquire"} /\ pc' \in {"wait", "acquire", "rc_idle"}
    \/ rc_site = "acquire" /\ (InCleanup \/ InCreate \/ pc = "rc_idle")

\* What C38 says a skipped call leaves alone, but for the command buffers: the
\* resize flag, the suboptimal counter, and the slot's fence, which no step
\* resets.
SkipKeepsFlagCountFence ==
    /\ framebuffer_resized' = framebuffer_resized
    /\ suboptimal_swapchain_count' = suboptimal_swapchain_count
    /\ in_flight_fences[current_frame] => in_flight_fences'[current_frame]

\* A frame that reaches the present with the resize flag set goes into the
\* recreation.
ResizeRecreatesAfterPresent ==
    (pc = "post" /\ pc' # "post" /\ framebuffer_resized)
       => pc' = "rc_idle" /\ rc_site' = "resize"

\* C38 as stated: a skipped call leaves the resize flag, the suboptimal
\* counter, the slot's fence and the slot's command buffer as they were, and a
\* resize flag that stays set makes the next frame that reaches the present
\* recreate the swapchain.
C38_SkipLeavesSlotUntouched ==
    [][/\ SkipStep => /\ SkipKeepsFlagCountFence
                      /\ command_buffers'[current_frame] = command_buffers[current_frame]
       /\ ResizeRecreatesAfterPresent]_vars

\* C38, amended: a skipped call leaves the resize flag, the suboptimal counter
\* and the slot's fence as they were and the command buffer of slot 1 as it
\* was; the recreation inside the call records the layout transitions of the
\* new images into command_buffers[0], whichever slot is current.  A resize
\* flag that stays set makes the next frame that reaches the present recreate
\* the swapchain.
C38_SkipLeavesAllButCommandBufferZero ==
    [][/\ SkipStep => /\ SkipKeepsFlagCountFence
                      /\ \A i \in Slots \ {0} : command_buffers'[i] = command_buffers[i]
                      /\ command_buffers'[0] \in {command_buffers[0], "transition"}
       /\ ResizeRecreatesAfterPresent]_vars

C38_Witness ==
    /\ SkippedFrame
    /\ entry_frame = 0
    /\ framebuffer_resized
    /\ suboptimal_swapchain_count > 0
    /\ in_flight_fences[0]
    /\ present_waits[0]
    /\ command_buffers[0] = "transition"

----------------------------------------------------------------------------
\* Layout transitions

\* The eight pairs of (old layout, new layout) the claim counts as supported.
SupportedPairs ==
    {<<"UNDEFINED", "TRANSFER_DST_OPTIMAL">>,
     <<"UNDEFINED", "SHADER_READ_ONLY_OPTIMAL">>,
     <<"UNDEFINED", "DEPTH_STENCIL_ATTACHMENT_OPTIMAL">>,
     <<"TRANSFER_DST_OPTIMAL", "SHADER_READ_ONLY_OPTIMAL">>,
     <<"PRESENT_SRC_KHR", "COLOR_ATTACHMENT_OPTIMAL">>,
     <<"COLOR_ATTACHMENT_OPTIMAL", "PRESENT_SRC_KHR">>,
     <<"COLOR_ATTACHMENT_OPTIMAL", "SHADER_READ_ONLY_OPTIMAL">>,
     <<"SHADER_READ_ONLY_OPTIMAL", "COLOR_ATTACHMENT_OPTIMAL">>}

====
